---- MODULE Spec2Model ----
(***************************************************************************)
(* A model of the rust-os kernel: the bump allocator, the Sv39 page-table  *)
(* code, the process table with its cooperative scheduler, the trap       *)
(* vector with the syscall dispatcher, the VirtIO block driver, the TAR    *)
(* parser and the boot sequence of main.                                   *)
(*                                                                         *)
(* The specifications are given over the same variables:                   *)
(*   Spec      the Scheduler object driven through its two entry points,   *)
(*             create_process and do_yield, in any order;                  *)
(*   SpecTrap  the running system after boot: user processes trap into the *)
(*             kernel with ecall, the trap vector saves the register file, *)
(*             the handler dispatches, GETCHAR yields cooperatively;       *)
(*   SpecMap   map_page on one root table;                                 *)
(*   SpecAlloc the bump allocator;                                         *)
(*   SpecBlk   the VirtIO block driver and its device;                     *)
(*   SpecOct   oct2int on byte strings;                                    *)
(*   SpecTar   tar_file, one turn of its many_till loop at a time;         *)
(*   SpecBoot  main, statement by statement, up to its do_yield.           *)
(*                                                                         *)
(* A 64-bit machine word is a record [lo, hi] of its two 32-bit halves, so *)
(* that 32-bit stores (sw) and 64-bit loads (ld) are told apart.           *)
(***************************************************************************)
EXTENDS Integers, Sequences, FiniteSets, TLC

VARIABLES
    procs,      \* Scheduler.procs: the process table, slot -> Option<Process>
    current,    \* Scheduler.current: the running Pid
    mutable,    \* BumpAllocator.mutable: Option<{next, end}>
    mem,        \* heap frames handed out by the allocator: address -> page
    kmem,       \* other kernel memory written through pointers (boot stack)
    panic,      \* "none", or the message of the panic that halted the kernel
    csr,        \* the supervisor CSRs: satp, sscratch, sepc, sstatus, scause, stval
    cpu,        \* the hart: privilege mode, pc, and the integer registers
    kctx,       \* per process: where its kernel-side execution stands
    console,    \* per process: bytes emitted by SBI putchar for its open syscall
    dev,        \* the VirtIO block device behind the MMIO registers
    blk,        \* the block driver: its Virtq, and the request in progress
    fs,         \* the file layer: the bytes being parsed, the parser's place in
                \* them, and its output
    hist        \* history of the run, read only by the properties

vars == <<procs, current, mutable, mem, kmem, panic, csr, cpu, kctx, console, dev, blk,
          fs, hist>>

(***************************************************************************)
(* Program constants                                                       *)
(***************************************************************************)
PAGE_SIZE == 4096
PROC_STACK_SIZE == 8192
PROCS_MAX == 8
USER_BASE == 16777216
STATUS_PIE == 32
NUM_REGISTERS == 14
PT_ENTRIES == 512

(***************************************************************************)
(* Bounds of the model                                                     *)
(***************************************************************************)
\* Pages of heap between __heap and __heap_end.
HeapPages == 24

(***************************************************************************)
(* Link-time layout.  The linker script is not part of the sources; the    *)
(* symbols are placed in the order the kernel relies on, page aligned.     *)
(***************************************************************************)
KernelImagePages == 18
kernel_start == 1075838976
heap_start == kernel_start + KernelImagePages * PAGE_SIZE
heap_end == heap_start + HeapPages * PAGE_SIZE
\* __stack_top: the boot stack lies in the kernel image, below the heap.
stack_top == heap_start
\* Address of the function user_entry, in the kernel text.
user_entry == kernel_start + 256
\* Address of the function trap_vector, in the section .text.stvec.
trap_vector == kernel_start + 640
\* Address of GLOBAL_SCHEDULER.procs[0], in the kernel's data.
SchedulerAddr == kernel_start + PAGE_SIZE
\* size_of::<Option<Process>>(): tag, pid, sp, page_table, stack.
ProcStride == 32 + PROC_STACK_SIZE
\* Address of procs[i].stack[0].
StackBase(i) == SchedulerAddr + i * ProcStride + 32
StackTop(i) == StackBase(i) + PROC_STACK_SIZE

(***************************************************************************)
(* Machine words and sparse memories                                       *)
(***************************************************************************)
None == [none |-> TRUE]
Zero == [lo |-> 0, hi |-> 0]
W(n) == [lo |-> n, hi |-> 0]

\* A zero-initialised memory holds only its non-zero cells.
Rd(m, a, zero) == IF a \in DOMAIN m THEN m[a] ELSE zero
Wr(m, a, v, zero) ==
    IF v = zero
    THEN [x \in DOMAIN m \ {a} |-> m[x]]
    ELSE [x \in DOMAIN m \cup {a} |-> IF x = a THEN v ELSE m[x]]

RECURSIVE BitOr(_, _)
BitOr(a, b) ==
    IF a = 0 THEN b
    ELSE IF b = 0 THEN a
    ELSE (IF a % 2 = 1 \/ b % 2 = 1 THEN 1 ELSE 0) + 2 * BitOr(a \div 2, b \div 2)

Panic(k, msg) == IF k.panic = "none" THEN [k EXCEPT !.panic = msg] ELSE k
Ok(k) == k.panic = "none"

\* The element of a one-element set.  "Sole({e(x) : x \in {d}})" is
\* "LET x == d IN e(x)" with d evaluated once.
Sole(S) == CHOOSE x \in S : TRUE

(***************************************************************************)
(* allocator.rs                                                            *)
(***************************************************************************)
next_multiple_of(n, a) == IF n % a = 0 THEN n ELSE n + (a - (n % a))

\* alloc without the rounding of `next` to the alignment.
alloc_no_round(k, size, align) ==
    IF ~Ok(k) THEN [k |-> k, addr |-> 0]
    ELSE IF k.mutable = None
    THEN [k |-> Panic(k, "Allocator not initialized"), addr |-> 0]
    ELSE LET addr == k.mutable.next IN
         IF addr + size > k.mutable.end
         THEN [k |-> Panic(k, "Out of Memory!"), addr |-> 0]
         ELSE [k |-> [k EXCEPT !.mutable.next = addr + size], addr |-> addr]

\* BumpAllocator::init
init(k, start, end) == [k EXCEPT !.mutable = [next |-> start, end |-> end]]

\* GlobalAlloc::dealloc: a line on the console, nothing else.
dealloc(k, ptr) == k

\* GlobalAlloc::alloc: the new kernel state and the address returned.
alloc(k, size, align) ==
    IF ~Ok(k) THEN [k |-> k, addr |-> 0]
    ELSE IF k.mutable = None
    THEN [k |-> Panic(k, "Allocator not initialized"), addr |-> 0]
    ELSE LET addr == next_multiple_of(k.mutable.next, align) IN
         IF addr + size > k.mutable.end
         THEN [k |-> Panic(k, "Out of Memory!"), addr |-> 0]
         ELSE [k |-> [k EXCEPT !.mutable.next = addr + size], addr |-> addr]

\* A page of the heap: page-table entries e (index -> PTE), or the first n
\* bytes copied from the image at offset src; everything else is zero.
ZeroPage == [e |-> <<>>, n |-> 0, src |-> 0]
PageAt(m, a) == Rd(m, a, ZeroPage)

RECURSIVE ZeroFrames(_, _, _)
ZeroFrames(m, addr, size) ==
    IF size <= 0 THEN m
    ELSE ZeroFrames(Wr(m, addr, ZeroPage, ZeroPage), addr + PAGE_SIZE, size - PAGE_SIZE)

\* GlobalAlloc::alloc_zeroed: alloc, then the region is zeroed.
alloc_zeroed(k, size, align) ==
    Sole({ IF ~Ok(a.k) THEN a
           ELSE [k |-> [a.k EXCEPT !.mem = ZeroFrames(a.k.mem, a.addr, size)],
                 addr |-> a.addr]
           : a \in {alloc(k, size, align)} })

(***************************************************************************)
(* memory.rs                                                               *)
(***************************************************************************)
Vaddr_is_aligned(v) == v % 4096 = 0
is_aligned(value) == value % 4096 = 0
pt_index_for_level(v, level) == (v \div (2 ^ (12 + level * 9))) % 512

PTE_valid(pte) == pte % 2 # 0
PTE_set_valid(pte) == BitOr(pte, 1)
PTE_from_paddr(paddr) == (paddr \div 4096) * 1024
PTE_into_paddr(pte) == (pte \div 1024) * 4096
PTE_read(pte) == (pte \div 2) % 2 # 0
PTE_write(pte) == (pte \div 4) % 2 # 0
PTE_x(pte) == (pte \div 8) % 2 # 0
PTE_u(pte) == (pte \div 16) % 2 # 0

\* PageFlags of four booleans: the 16 combinations.
PageFlags == [read : BOOLEAN, write : BOOLEAN, execute : BOOLEAN, user : BOOLEAN]
PageFlags_kernel_all == [read |-> TRUE, write |-> TRUE, execute |-> TRUE, user |-> FALSE]
PageFlags_all == [read |-> TRUE, write |-> TRUE, execute |-> TRUE, user |-> TRUE]
\* as_raw with the user bit one place too high.
as_raw_user5(flags) ==
    BitOr(BitOr(BitOr((IF flags.read THEN 1 ELSE 0) * 2,
                      (IF flags.write THEN 1 ELSE 0) * 4),
                (IF flags.execute THEN 1 ELSE 0) * 8),
          (IF flags.user THEN 1 ELSE 0) * 32)
as_raw(flags) ==
    BitOr(BitOr(BitOr((IF flags.read THEN 1 ELSE 0) * 2,
                      (IF flags.write THEN 1 ELSE 0) * 4),
                (IF flags.execute THEN 1 ELSE 0) * 8),
          (IF flags.user THEN 1 ELSE 0) * 16)
PTE_with_flags(pte, flags) == BitOr(pte, as_raw(flags))

ReadPte(m, table, index) == Rd(PageAt(m, table).e, index, 0)
WritePte(k, table, index, pte) ==
    [k EXCEPT !.mem = Wr(k.mem, table,
                         [PageAt(k.mem, table) EXCEPT !.e = Wr(@, index, pte, 0)],
                         ZeroPage)]

alloc_pages(k, n) == alloc_zeroed(k, PAGE_SIZE * n, PAGE_SIZE)

\* One iteration of the loop of walk, at `level`.
walk_level(r, vaddr, level, create) ==
    IF ~r.some \/ ~Ok(r.k) THEN r
    ELSE LET index == pt_index_for_level(vaddr, level)
             pte == ReadPte(r.k.mem, r.pagetable, index)
         IN IF PTE_valid(pte)
            THEN [r EXCEPT !.pagetable = PTE_into_paddr(pte)]
            ELSE IF create
            THEN Sole({ IF ~Ok(a.k) THEN [r EXCEPT !.k = a.k]
                        ELSE [k |-> WritePte(a.k, r.pagetable, index,
                                             PTE_set_valid(PTE_from_paddr(a.addr))),
                              pagetable |-> a.addr, some |-> TRUE]
                        : a \in {alloc_zeroed(r.k, PAGE_SIZE, PAGE_SIZE)} })
            ELSE [r EXCEPT !.some = FALSE]

\* walk: the leaf slot (table, index) for vaddr, or some = FALSE.
walk(k, pagetable, vaddr, create) ==
    Sole({ [k |-> r1.k, some |-> r1.some, table |-> r1.pagetable,
            index |-> pt_index_for_level(vaddr, 0)]
           : r1 \in { walk_level(r2, vaddr, 1, create)
                      : r2 \in {walk_level([k |-> k, pagetable |-> pagetable, some |-> TRUE],
                                           vaddr, 2, create)} } })

\* map_page without the arm that panics on a valid leaf.
map_page_overwrite(k, table1, vaddr, paddr, flags) ==
    IF ~Ok(k) THEN k
    ELSE IF ~Vaddr_is_aligned(vaddr) THEN Panic(k, "Virtual address not page-aligned")
    ELSE IF ~is_aligned(paddr) THEN Panic(k, "Physical address not page-aligned")
    ELSE Sole({ IF ~Ok(w.k) THEN w.k
                ELSE IF ~w.some THEN Panic(w.k, "unreachable")
                ELSE WritePte(w.k, w.table, w.index,
                              PTE_set_valid(PTE_with_flags(PTE_from_paddr(paddr), flags)))
                : w \in {walk(k, table1, vaddr, TRUE)} })

map_page(k, table1, vaddr, paddr, flags) ==
    IF ~Ok(k) THEN k
    ELSE IF ~Vaddr_is_aligned(vaddr) THEN Panic(k, "Virtual address not page-aligned")
    ELSE IF ~is_aligned(paddr) THEN Panic(k, "Physical address not page-aligned")
    ELSE Sole({ IF ~Ok(w.k) THEN w.k
                ELSE IF ~w.some THEN Panic(w.k, "unreachable")
                ELSE IF PTE_valid(ReadPte(w.k.mem, w.table, w.index))
                THEN Panic(w.k, "remap")
                ELSE WritePte(w.k, w.table, w.index,
                              PTE_set_valid(PTE_with_flags(PTE_from_paddr(paddr), flags)))
                : w \in {walk(k, table1, vaddr, TRUE)} })

\* The leaf PTE the tables under `root` hold for vaddr, 0 when a level is
\* missing: the walk the MMU makes, which is walk with create = false (over
\* the memory as it is, whether or not the kernel has panicked).
Translate(k, root, vaddr) ==
    Sole({ IF w.some THEN ReadPte(k.mem, w.table, w.index) ELSE 0
           : w \in {walk([k EXCEPT !.panic = "none"], root, vaddr, FALSE)} })

(***************************************************************************)
(* Kernel memory reached through raw pointers.  An address inside the      *)
(* inline stack of an occupied slot is a cell of that Process; any other   *)
(* address is a cell of kmem.                                              *)
(***************************************************************************)
Slots == 0 .. (PROCS_MAX - 1)
StackOf(k, addr) ==
    LET S == {i \in Slots : k.procs[i] # None /\ StackBase(i) <= addr /\ addr < StackTop(i)}
    IN IF S = {} THEN -1 ELSE CHOOSE i \in S : TRUE
LoadWord(k, addr) ==
    LET i == StackOf(k, addr) IN
    IF i >= 0 THEN Rd(k.procs[i].stack, addr - StackBase(i), Zero)
    ELSE Rd(k.kmem, addr, Zero)
StoreWord(k, addr, w) ==
    LET i == StackOf(k, addr) IN
    IF i >= 0 THEN [k EXCEPT !.procs[i].stack = Wr(@, addr - StackBase(i), w, Zero)]
    ELSE [k EXCEPT !.kmem = Wr(@, addr, w, Zero)]

(***************************************************************************)
(* process.rs                                                              *)
(***************************************************************************)
Pid_idle == 0
\* Process::uninitialized
Process_uninitialized == [pid |-> Pid_idle, sp |-> 0, page_table |-> 0, stack |-> <<>>]
is_idle_process(proc) == proc.pid = 0

\* Scheduler::new
Scheduler_new ==
    [procs |-> [i \in Slots |-> IF i = 0 THEN Process_uninitialized ELSE None],
     current |-> Pid_idle]

\* The loop of find_next_process from its i-th iteration: the slot chosen,
\* or -1 when the loop falls through to unreachable!().
RECURSIVE find_next_from(_, _, _)
find_next_from(ps, cur, i) ==
    IF i > PROCS_MAX THEN -1
    ELSE LET slot == (cur + i) % PROCS_MAX IN
         IF ps[slot] = None THEN find_next_from(ps, cur, i + 1)
         ELSE IF is_idle_process(ps[slot]) THEN find_next_from(ps, cur, i + 1)
         ELSE slot
\* Mutation: the scan starts at `current` itself.
find_next_process_from_current(ps, cur) == find_next_from(ps, cur, 0)
find_next_process(ps, cur) == find_next_from(ps, cur, 1)

\* Mutation: the last empty slot is taken instead of the first.
find_free_from_last(ps, i) ==
    LET E == {j \in i .. (PROCS_MAX - 1) : ps[j] = None} IN
    IF E = {} THEN -1 ELSE CHOOSE j \in E : \A h \in E : h <= j

\* The loop of find_free_process: the first empty slot, or -1.
RECURSIVE find_free_from(_, _)
find_free_from(ps, i) ==
    IF i >= PROCS_MAX THEN -1
    ELSE IF ps[i] = None THEN i
    ELSE find_free_from(ps, i + 1)

\* Mutation: a full table makes find_free_process take the last slot again.
find_free_process_reuse(k) ==
    LET i == find_free_from(k.procs, 0)
        j == IF i = -1 THEN PROCS_MAX - 1 ELSE i
    IN [k |-> [k EXCEPT !.procs[j] = [Process_uninitialized EXCEPT !.pid = j]], slot |-> j]

\* find_free_process: the slot is filled and given its PID; Pid::new asserts
\* that the index is not 0.
find_free_process(k) ==
    LET i == find_free_from(k.procs, 0) IN
    IF i = -1 THEN [k |-> Panic(k, "No free processes"), slot |-> -1]
    ELSE IF i = 0
    THEN [k |-> Panic([k EXCEPT !.procs[i] = Process_uninitialized],
                      "Tried to create an idle process"), slot |-> -1]
    ELSE [k |-> [k EXCEPT !.procs[i] = [Process_uninitialized EXCEPT !.pid = i]],
          slot |-> i]

\* The kernel mapping loop with PageFlags::all() in place of kernel_all().
RECURSIVE map_kernel_user(_, _, _, _)
map_kernel_user(k, table, addr, end) ==
    IF addr >= end \/ ~Ok(k) THEN k
    ELSE IF end - addr <= PAGE_SIZE
    THEN map_page(k, table, addr, addr, PageFlags_all)
    ELSE LET pages == (end - addr + PAGE_SIZE - 1) \div PAGE_SIZE
             mid == addr + (pages \div 2) * PAGE_SIZE
         IN Sole({ map_kernel_user(k1, table, mid, end)
                   : k1 \in {map_kernel_user(k, table, addr, mid)} })

\* create_process, the loop "for addr in (start..end).step_by(PAGE_SIZE)":
\* the pages of [addr, end) in ascending order, the lower half of them first.
RECURSIVE map_kernel(_, _, _, _)
map_kernel(k, table, addr, end) ==
    IF addr >= end \/ ~Ok(k) THEN k
    ELSE IF end - addr <= PAGE_SIZE
    THEN map_page(k, table, addr, addr, PageFlags_kernel_all)
    ELSE LET pages == (end - addr + PAGE_SIZE - 1) \div PAGE_SIZE
             mid == addr + (pages \div 2) * PAGE_SIZE
         IN Sole({ map_kernel(k1, table, mid, end)
                   : k1 \in {map_kernel(k, table, addr, mid)} })

\* min of two numbers
Min(a, b) == IF a < b THEN a ELSE b

\* The image mapping loop copying a whole page whatever remains.
RECURSIVE map_user_whole(_, _, _, _)
map_user_whole(k, table, image_size, offset) ==
    IF offset >= image_size \/ ~Ok(k) THEN k
    ELSE LET copied(a) == IF Ok(a.k)
                          THEN [a.k EXCEPT !.mem = Wr(@, a.addr,
                                  [PageAt(a.k.mem, a.addr) EXCEPT !.n = PAGE_SIZE,
                                                                    !.src = offset],
                                  ZeroPage)]
                          ELSE a.k
         IN Sole({ map_user_whole(k2, table, image_size, offset + PAGE_SIZE)
                   : k2 \in UNION { { map_page(k1, table, USER_BASE + offset, a.addr,
                                               PageFlags_all)
                                      : k1 \in {copied(a)} }
                                    : a \in {alloc_pages(k, 1)} } })

\* create_process, the loop "for offset in (0..image_size).step_by(PAGE_SIZE)".
RECURSIVE map_user(_, _, _, _)
map_user(k, table, image_size, offset) ==
    IF offset >= image_size \/ ~Ok(k) THEN k
    ELSE LET remaining == image_size - offset
             copy_size == Min(PAGE_SIZE, remaining)
             \* ptr::copy_nonoverlapping(image[offset..], page, copy_size)
             copied(a) == IF Ok(a.k)
                          THEN [a.k EXCEPT !.mem = Wr(@, a.addr,
                                  [PageAt(a.k.mem, a.addr) EXCEPT !.n = copy_size,
                                                                    !.src = offset],
                                  ZeroPage)]
                          ELSE a.k
         IN Sole({ map_user(k2, table, image_size, offset + PAGE_SIZE)
                   : k2 \in UNION { { map_page(k1, table, USER_BASE + offset, a.addr,
                                               PageFlags_all)
                                      : k1 \in {copied(a)} }
                                    : a \in {alloc_pages(k, 1)} } })

\* Scheduler::create_process(image): the new kernel state and the Pid
\* returned (-1 when the call panics).
create_process(k, image_size) ==
    LET \* (*proc).page_table = alloc_pages(1)
        set_table(a, i) ==
            IF Ok(a.k) THEN [a.k EXCEPT !.procs[i].page_table = a.addr] ELSE a.k
        \* the synthetic frame of 14 saved registers, ra = user_entry
        seed(k3, i) ==
            LET sp == StackTop(i) - NUM_REGISTERS * 8 IN
            IF Ok(k3)
            THEN [StoreWord(k3, sp, W(user_entry)) EXCEPT !.procs[i].sp = sp]
            ELSE k3
        mapped(f, a) ==
            Sole({ [k |-> k4, ret |-> IF Ok(k4) THEN k4.procs[f.slot].pid ELSE -1]
                   : k4 \in UNION { UNION { { seed(k3, f.slot)
                                              : k3 \in {map_user(k2, a.addr, image_size, 0)} }
                                            : k2 \in {map_kernel(k1, a.addr, kernel_start,
                                                                 heap_end)} }
                                    : k1 \in {set_table(a, f.slot)} } })
        found(f) ==
            IF ~Ok(f.k) THEN [k |-> f.k, ret |-> -1]
            ELSE Sole({ mapped(f, a) : a \in {alloc_pages(f.k, 1)} })
    IN Sole({ found(f) : f \in {find_free_process(k)} })

\* The callee-saved registers s0..s11 as x-register numbers.
SREGS == <<8, 9, 18, 19, 20, 21, 22, 23, 24, 25, 26, 27>>
RA == 1
SP == 2
\* The return address the call in do_yield leaves in ra.
ret_do_yield == kernel_start + 512

\* The stores of switch_context without the one of s11.
RECURSIVE save_sregs_to_s10(_, _, _)
save_sregs_to_s10(k, sp, j) ==
    IF j > 11 THEN k
    ELSE Sole({ save_sregs_to_s10(k1, sp, j + 1)
                : k1 \in {StoreWord(k, sp + j * 8, k.cpu.x[SREGS[j]])} })

RECURSIVE save_sregs(_, _, _)
save_sregs(k, sp, j) ==
    IF j > 12 THEN k
    ELSE Sole({ save_sregs(k1, sp, j + 1)
                : k1 \in {StoreWord(k, sp + j * 8, k.cpu.x[SREGS[j]])} })

\* sret: the mode of SPP, SIE := SPIE, SPIE := 1, SPP := 0, pc := sepc.
sret(k) ==
    LET st == k.csr.sstatus
        spie == (st \div 32) % 2
        spp == (st \div 256) % 2
        rest == st - ((st \div 2) % 2) * 2 - ((st \div 32) % 2) * 32 - ((st \div 256) % 2) * 256
    IN [k EXCEPT !.csr.sstatus = rest + spie * 2 + 32,
                 !.cpu.mode = IF spp = 1 THEN "S" ELSE "U",
                 !.cpu.pc = k.csr.sepc]

\* user_entry with SPP set in the sstatus it writes: the sret stays in S-mode.
run_user_entry_spp(k) ==
    sret([k EXCEPT !.csr.sepc = USER_BASE, !.csr.sstatus = STATUS_PIE + 256,
                   !.cpu.x[5] = W(USER_BASE), !.cpu.x[6] = W(STATUS_PIE + 256)])

\* user_entry: sepc := USER_BASE, sstatus := STATUS_PIE, sret.
run_user_entry(k) ==
    sret([k EXCEPT !.csr.sepc = USER_BASE, !.csr.sstatus = STATUS_PIE,
                   !.cpu.x[5] = W(USER_BASE), !.cpu.x[6] = W(STATUS_PIE)])

\* switch_context(&procs[prev].sp, &procs[next].sp), up to and including
\* its ret; a ret into user_entry runs user_entry.
switch_context(k, prev, next) ==
    LET sp1 == k.cpu.x[SP].lo - NUM_REGISTERS * 8
        \* "sd sp, (a0)" after the 13 stores
        saved(k1) == [k1 EXCEPT !.procs[prev].sp = sp1]
        \* "ld sp, (a1)", the 13 loads, "addi sp, sp, 14 * 8"
        loaded(k2) ==
            LET sp2 == k2.procs[next].sp IN
            [k2 EXCEPT !.cpu.x = [r \in DOMAIN @ |->
                  IF r = RA THEN LoadWord(k2, sp2)
                  ELSE IF r = SP THEN W(sp2 + NUM_REGISTERS * 8)
                  ELSE IF \E j \in 1..12 : SREGS[j] = r
                       THEN LoadWord(k2, sp2 + 8 * (CHOOSE j \in 1..12 : SREGS[j] = r))
                  ELSE @[r]]]
        \* "ret"
        ret(k3) == IF k3.cpu.x[RA] = W(user_entry) THEN run_user_entry(k3)
                   ELSE [k3 EXCEPT !.cpu.pc = k3.cpu.x[RA].lo]
    IN Sole({ ret(k3)
              : k3 \in UNION { { loaded(k2) : k2 \in {saved(k1)} }
                               : k1 \in {save_sregs(StoreWord(k, sp1, k.cpu.x[RA]), sp1, 1)} } })

\* do_yield without the `current != next.pid` test: the switch is always made.
do_yield_always(k) ==
    IF ~Ok(k) THEN k
    ELSE LET slot == find_next_process(k.procs, k.current) IN
    IF slot = -1 THEN Panic(k, "unreachable")
    ELSE LET next == k.procs[slot] IN
         Sole({ IF k1.procs[k.current] = None \/ k1.procs[k1.current] = None
                THEN Panic(k1, "unwrap on None")
                ELSE switch_context(k1, k.current, k1.current)
                : k1 \in {[k EXCEPT
                    !.csr.satp = [mode |-> 8, ppn |-> next.page_table \div PAGE_SIZE],
                    !.csr.sscratch = W(StackTop(slot)),
                    !.current = next.pid,
                    !.cpu.x[RA] = W(ret_do_yield)]} })

\* do_yield that leaves SATP as it is when it switches.
do_yield_stale_satp(k) ==
    IF ~Ok(k) THEN k
    ELSE LET slot == find_next_process(k.procs, k.current) IN
    IF slot = -1 THEN Panic(k, "unreachable")
    ELSE LET next == k.procs[slot] IN
         IF k.current # next.pid
         THEN Sole({ IF k1.procs[k.current] = None \/ k1.procs[k1.current] = None
                     THEN Panic(k1, "unwrap on None")
                     ELSE switch_context(k1, k.current, k1.current)
                     : k1 \in {[k EXCEPT
                         !.csr.sscratch = W(StackTop(slot)),
                         !.current = next.pid,
                         !.cpu.x[RA] = W(ret_do_yield)]} })
         ELSE k

\* Scheduler::do_yield
do_yield(k) ==
    IF ~Ok(k) THEN k
    ELSE LET slot == find_next_process(k.procs, k.current) IN
    IF slot = -1 THEN Panic(k, "unreachable")
    ELSE LET next == k.procs[slot] IN
         IF k.current # next.pid
         THEN Sole({ IF k1.procs[k.current] = None \/ k1.procs[k1.current] = None
                     THEN Panic(k1, "unwrap on None")
                     ELSE switch_context(k1, k.current, k1.current)
                     : k1 \in {[k EXCEPT
                         !.csr.satp = [mode |-> 8, ppn |-> next.page_table \div PAGE_SIZE],
                         !.csr.sscratch = W(StackTop(slot)),
                         !.current = next.pid,
                         !.cpu.x[RA] = W(ret_do_yield)]} })
         ELSE k

(***************************************************************************)
(* The kernel state as one record, for the operators above, and back.      *)
(***************************************************************************)
K == [procs |-> procs, current |-> current, mutable |-> mutable, mem |-> mem,
      kmem |-> kmem, panic |-> panic, csr |-> csr, cpu |-> cpu]

Install(k) ==
    /\ procs' = k.procs
    /\ current' = k.current
    /\ mutable' = k.mutable
    /\ mem' = k.mem
    /\ kmem' = k.kmem
    /\ panic' = k.panic
    /\ csr' = k.csr
    /\ cpu' = k.cpu

\* Image lengths given to create_process: empty, one byte, a page and a byte.
ImageSizes == {0, 1, PAGE_SIZE + 1}

\* The number of do_yield results the history keeps.
TrailLen == PROCS_MAX - 1
Last(s, n) == IF Len(s) <= n THEN s ELSE SubSeq(s, Len(s) - n + 1, Len(s))

\* The occupied slots of a process table, and its non-idle processes.
Occupied(ps) == {i \in Slots : ps[i] # None}
NonIdle(ps) == {i \in Slots : ps[i] # None /\ ps[i].pid # 0}

(***************************************************************************)
(* Spec: the Scheduler driven through create_process and do_yield.  The    *)
(* history records, for the last call, its name (op), the Pid returned     *)
(* (ret), the occupied slots and `current` before it (occ, from), and the  *)
(* values `current` took after each do_yield since the last                *)
(* create_process (trail); for a create_process that returned, the length *)
(* of its image (size), and the allocator's `next` before the call         *)
(* (next0).                                                                *)
(***************************************************************************)
CsrInit == [satp |-> [mode |-> 0, ppn |-> 0], sscratch |-> Zero, sepc |-> 0,
            sstatus |-> 0, scause |-> [intr |-> FALSE, code |-> 0], stval |-> 0,
            stvec |-> 0]
\* main runs in S-mode on the boot stack; its allocator is initialised
\* (allocator init precedes every create_process in main).
CpuInit == [mode |-> "S", pc |-> 0,
            x |-> [r \in 1..31 |-> IF r = SP THEN W(stack_top - 64) ELSE Zero]]

Init ==
    /\ procs = Scheduler_new.procs
    /\ current = Scheduler_new.current
    /\ mutable = [next |-> heap_start, end |-> heap_end]
    /\ mem = <<>>
    /\ kmem = <<>>
    /\ panic = "none"
    /\ csr = CsrInit
    /\ cpu = CpuInit
    /\ kctx = <<>>
    /\ console = <<>>
    /\ dev = None
    /\ blk = None
    /\ fs = None
    /\ hist = [op |-> "new", ret |-> -1, trail |-> <<>>, occ |-> {0}, from |-> 0,
               size |-> 0, next0 |-> heap_start]

\* A call of create_process(image) by the running kernel context.
CreateProcess ==
    /\ panic = "none"
    /\ \E size \in ImageSizes :
         \E r \in {create_process(K, size)} :
         /\ Install(r.k)
         /\ hist' = [op |-> "create_process", ret |-> r.ret, trail |-> <<>>,
                     occ |-> Occupied(procs), from |-> current,
                     size |-> IF r.ret # -1 THEN size ELSE 0,
                     next0 |-> mutable.next]
    /\ UNCHANGED <<kctx, console>>
    /\ UNCHANGED <<dev, blk, fs>>

\* A call of do_yield by the running kernel context.
DoYield ==
    /\ panic = "none"
    /\ \E k \in {do_yield(K)} :
       /\ Install(k)
       /\ hist' = [op |-> "do_yield", ret |-> -1,
                   trail |-> IF Ok(k) THEN Last(Append(hist.trail, k.current), TrailLen)
                             ELSE hist.trail,
                   occ |-> Occupied(procs), from |-> current,
                   size |-> 0, next0 |-> mutable.next]
    /\ UNCHANGED <<kctx, console>>
    /\ UNCHANGED <<dev, blk, fs>>

Next == CreateProcess \/ DoYield

Spec == Init /\ [][Next]_vars

(***************************************************************************)
(* sbi.rs                                                                  *)
(***************************************************************************)
\* getchar: the a0 the firmware returned, read as i64; Some(value as u8)
\* when it is not negative.
Some(v) == [some |-> v]
sbi_getchar(value) == IF value >= 0 THEN Some(value % 256) ELSE None

\* Mutation: getchar_coop polls again without yielding.
getchar_coop_busy(opt) == IF opt = None THEN "getchar" ELSE "return"
\* getchar_coop, one turn of its loop: where control goes after a poll.
getchar_coop(opt) == IF opt = None THEN "yield" ELSE "return"

(***************************************************************************)
(* trap.rs                                                                 *)
(***************************************************************************)
\* Offset of the field x<r> in TrapFrame, and of its last field, sp.
FrameSlot(r) == 8 * (r - 1)
FrameSp == 248
FRAME_SIZE == 256
\* The return address "call trap_handler" leaves in ra.
ret_trap_vector == kernel_start + 768
\* Stack the Rust frames of trap_handler, handle_syscall, getchar_coop and
\* do_yield take below the trap frame (the compiler's choice).
RustFrameBytes == 128

\* sw: a 32-bit store into the low half of the word at addr.
StoreLow(k, addr, w) == StoreWord(k, addr, [lo |-> w.lo, hi |-> LoadWord(k, addr).hi])

\* The hart takes a trap from U-mode: sepc, scause, stval, SPP := 0,
\* SPIE := SIE, SIE := 0, and S-mode.
take_trap(k, cause, tval) ==
    LET st == k.csr.sstatus
        sie == (st \div 2) % 2
        rest == st - ((st \div 2) % 2) * 2 - ((st \div 32) % 2) * 32 - ((st \div 256) % 2) * 256
    IN [k EXCEPT !.csr.sepc = k.cpu.pc, !.csr.scause = cause, !.csr.stval = tval,
                 !.csr.sstatus = rest + sie * 32,
                 !.cpu.mode = "S"]

\* "sd x<r>, ..(sp)" ... "sd x31, 240(sp)", one store after the other.
RECURSIVE store_regs_each(_, _, _)
store_regs_each(k, frame, r) ==
    IF r > 31 THEN k
    ELSE Sole({ store_regs_each(k1, frame, r + 1)
                : k1 \in {StoreWord(k, frame + FrameSlot(r), k.cpu.x[r])} })

\* "sd x1, 0(sp)" ... "sd x31, 240(sp)".  Where all the cells lie in one
\* kernel stack the stores are made on that stack in one step, which gives
\* what store_regs_each gives.
store_regs(k, frame, r) ==
    LET i == StackOf(k, frame) IN
    IF i >= 0 /\ StackOf(k, frame + FrameSlot(31)) = i
    THEN LET off == frame - StackBase(i)
             at(x) == (x - off) \div 8 + 1
             cells == {off + FrameSlot(q) : q \in r..31}
             set == {c \in cells : k.cpu.x[at(c)] # Zero}
         IN [k EXCEPT !.procs[i].stack =
                [x \in (DOMAIN @ \ cells) \cup set |->
                    IF x \in cells THEN k.cpu.x[at(x)] ELSE @[x]]]
    ELSE store_regs_each(k, frame, r)

\* trap_vector from its first instruction to "call trap_handler".
trap_vector_entry(k) ==
    LET \* csrrw sp, sscratch, sp; addi sp, sp, -256
        frame == k.csr.sscratch.lo - FRAME_SIZE
        swapped == [k EXCEPT !.csr.sscratch = k.cpu.x[SP], !.cpu.x[SP] = W(frame)]
        \* csrr a0, sscratch; sw a0, 248(sp)
        user_sp(k1) == StoreLow([k1 EXCEPT !.cpu.x[10] = k1.csr.sscratch],
                                frame + FrameSp, k1.csr.sscratch)
        \* addi a0, sp, 8 * 31; csrw sscratch, a0; mv a0, sp; call trap_handler
        call(k2) == [k2 EXCEPT !.csr.sscratch = W(frame + 8 * 31),
                               !.cpu.x[10] = W(frame),
                               !.cpu.x[RA] = W(ret_trap_vector)]
    IN Sole({ call(k2)
              : k2 \in UNION { { user_sp(k1) : k1 \in {store_regs(k0, frame, 1)} }
                               : k0 \in {swapped} } })

\* trap_vector after trap_handler returned: the loads, "ld sp, 248(sp)", sret.
trap_vector_return(k) ==
    LET frame == k.cpu.x[SP].lo IN
    sret([k EXCEPT !.cpu.x = [r \in DOMAIN @ |->
              IF r = SP THEN LoadWord(k, frame + FrameSp)
              ELSE LoadWord(k, frame + FrameSlot(r))]])

\* An scause value: the interrupt bit (bit 63) and the code below it.
Exception(c) == [intr |-> FALSE, code |-> c]
Interrupt(c) == [intr |-> TRUE, code |-> c]
ECALL_U == Exception(8)

\* trap_handler, its match on scause: "syscall", the message of an Err arm,
\* or "unknown" for the arm that panics at once.
scause_arm(scause) ==
    LET c == scause.code IN
    IF ~scause.intr
    THEN CASE c = 0 -> "instr address misalign"
           [] c = 1 -> "instruction access fault"
           [] c = 2 -> "illegal instruction"
           [] c = 3 -> "breakpoint"
           [] c = 4 -> "load address misaligned"
           [] c = 5 -> "load access fault"
           [] c = 6 -> "store/AMO address misaligned"
           [] c = 7 -> "store/AMO access fault"
           [] c = 8 -> "syscall"
           [] c = 9 -> "environment call from HS-mode"
           [] c = 10 -> "environment call from VS-mode"
           [] c = 11 -> "environment call from M-mode"
           [] c = 12 -> "instruction page fault"
           [] c = 13 -> "load page fault"
           [] c = 15 -> "store/AMO page fault"
           [] c = 20 -> "instruction guest-page fault"
           [] c = 21 -> "load guest-page fault"
           [] c = 22 -> "virtual instruction"
           [] c = 23 -> "store/AMO guest-page fault"
           [] OTHER -> "unknown"
    ELSE CASE c = 0 -> "user software interrupt"
           [] c = 1 -> "supervisor software interrupt"
           [] c = 2 -> "hypervisor software interrupt"
           [] c = 3 -> "machine software interrupt"
           [] c = 4 -> "user timer interrupt"
           [] c = 5 -> "supervisor timer interrupt"
           [] c = 6 -> "hypervisor timer interrupt"
           [] c = 7 -> "machine timer interrupt"
           [] c = 8 -> "user external interrupt"
           [] c = 9 -> "supervisor external interrupt"
           [] c = 10 -> "hypervisor external interrupt"
           [] c = 11 -> "machine external interrupt"
           [] OTHER -> "unknown"

\* Mutation: an environment call from HS-mode is dispatched as a syscall too.
trap_cause_hs(scause) ==
    IF scause = Exception(9) THEN "syscall" ELSE scause_arm(scause)
\* trap_handler: what it does for the scause it read.
trap_cause(scause) == scause_arm(scause)

\* handle_syscall, its match on frame.x13.
syscall_arm(x13) ==
    IF x13 = W(3) THEN "putchar"
    ELSE IF x13 = W(2) THEN "getchar"
    ELSE "unknown"

\* Mutation: sepc is advanced from the CSR as it is when the syscall ends.
syscall_sepc_late(k, user_pc) == k.csr.sepc + 4
\* handle_syscall, write_csr!("sepc", user_pc + 4): user_pc is the sepc
\* trap_handler read when it was entered.
syscall_sepc(k, user_pc) == user_pc + 4

(***************************************************************************)
(* SpecTrap: user processes trapping into the kernel.  It starts where     *)
(* main has created its processes and is about to yield.  kctx[p] is where *)
(* process p stands (pc), the TrapFrame its trap_handler was given (frame) *)
(* and the sepc trap_handler read on entry (user_pc); console[p] is what   *)
(* SBI putchar was given since p's last trap.                              *)
(* The block driver main sets up before create_process only moves the     *)
(* addresses the allocator hands out; it is left out here.                 *)
(***************************************************************************)
\* How many processes main created.
BootProcs == {1, 2}
\* constants::SHELL, by its length: the empty slice.
SHELL == 0
\* The image each of them was given: SHELL as main gives it, or one page
\* (what including a shell binary would give).
BootImage == PAGE_SIZE
BootImages == {SHELL, BootImage}
\* Traps a process takes in all.
MaxTraps == 3

RECURSIVE boot(_, _, _)
boot(k, n, image) ==
    IF n = 0 THEN k
    ELSE Sole({ boot(r.k, n - 1, image) : r \in {create_process(k, image)} })

\* Whether U-mode can fetch an instruction at pc under the active SATP:
\* the leaf is valid and has U and X.
UserCanExecute(k, pc) ==
    Sole({ PTE_valid(pte) /\ PTE_u(pte) /\ PTE_x(pte)
           : pte \in {Translate(k, k.csr.satp.ppn * PAGE_SIZE,
                                 (pc \div PAGE_SIZE) * PAGE_SIZE)} })

\* What SBI legacy getchar answers: -1 for no character, or a byte.
SbiValues == {-1, 120}

\* The ecalls user code makes: where (pc), with what stack pointer, and a3
\* and a0.  At the first pc the stubs of userlib with the numbers of common
\* (put_char 1, get_char 2) and a number nobody defines; at the second the
\* stubs of the shell (getchar 2, putchar 3; 3 is EXIT in common), there
\* with a stack pointer beyond 32 bits.
UserCalls ==
    { [pc |-> USER_BASE, sp |-> W(USER_BASE + 2 * PAGE_SIZE), a3 |-> c[1], a0 |-> c[2]]
      : c \in {<<1, 65>>, <<2, 0>>, <<4, 0>>} }
    \cup
    { [pc |-> USER_BASE + 8, sp |-> [lo |-> PAGE_SIZE, hi |-> 1], a3 |-> c[1], a0 |-> c[2]]
      : c \in {<<2, 0>>, <<3, 65>>} }
\* A register file of user code with sp, a0 and a3 as given; every other
\* register holds a value of its own in both halves.
UserRegs(sp, a0, a3) ==
    [r \in 1..31 |-> CASE r = SP -> sp
                       [] r = 10 -> W(a0)
                       [] r = 13 -> W(a3)
                       [] OTHER -> [lo |-> 1000 + r, hi |-> r]]
\* The traps user code takes: an ecall, or any other cause.
Ecalls ==
    { [cause |-> ECALL_U, pc |-> c.pc, x |-> UserRegs(c.sp, c.a0, c.a3)]
      : c \in UserCalls }
\* Every value scause is given below, and the ones user code is made to
\* trap with besides the ecall: faults, interrupts, codes nobody defines.
Scauses == {Exception(n) : n \in 0..24} \cup {Interrupt(n) : n \in 0..12}
FaultCauses ==
    {Exception(2), Exception(9), Exception(12), Exception(13), Exception(14),
     Exception(15), Interrupt(5), Interrupt(12)}
Faults ==
    { [cause |-> c, pc |-> USER_BASE, x |-> UserRegs(W(USER_BASE + 2 * PAGE_SIZE), 0, 0)]
      : c \in FaultCauses }

\* The traps user code can take in state k: where it cannot fetch its next
\* instruction, the instruction page fault at that pc and nothing else.
UserTraps(k) ==
    IF UserCanExecute(k, k.cpu.pc) THEN Ecalls \cup Faults
    ELSE {[cause |-> Exception(12), pc |-> k.cpu.pc, x |-> k.cpu.x]}

NoCall == [pc |-> 0]
FrameWords(k, frame) == [j \in 0..31 |-> LoadWord(k, frame + 8 * j)]

InitTrap ==
    /\ \E n \in BootProcs : \E image \in BootImages :
       \E k \in {boot([procs |-> Scheduler_new.procs,
                       current |-> Scheduler_new.current,
                       mutable |-> [next |-> heap_start, end |-> heap_end],
                       mem |-> <<>>, kmem |-> <<>>, panic |-> "none",
                       csr |-> [CsrInit EXCEPT !.stvec = trap_vector],
                       cpu |-> CpuInit], n, image)} :
          /\ procs = k.procs /\ current = k.current /\ mutable = k.mutable
          /\ mem = k.mem /\ kmem = k.kmem /\ panic = k.panic
          /\ csr = k.csr /\ cpu = k.cpu
          /\ hist = [op |-> "boot", ecall |-> [p \in Slots |-> NoCall],
                     traps |-> [p \in Slots |-> 0], invoked |-> FALSE, from |-> 0,
                     image |-> image, saved |-> [p \in Slots |-> None]]
    /\ kctx = [p \in Slots |-> [pc |-> IF p = Pid_idle THEN "main" ELSE "new",
                                frame |-> 0, user_pc |-> 0]]
    /\ console = [p \in Slots |-> <<>>]
    /\ dev = None
    /\ blk = None
    /\ fs = None

\* ra, s0..s11 and sp as switch_context finds them when do_yield calls it.
CallerRegs(k) ==
    [ra |-> W(ret_do_yield), s |-> [j \in 1..12 |-> k.cpu.x[SREGS[j]]],
     sp |-> k.cpu.x[SP]]

\* What the history keeps of a do_yield of `from`: the registers it called
\* switch_context with, when it did.
Switched(saved, from, k0, k) ==
    IF k.current # from THEN [saved EXCEPT ![from] = CallerRegs(k0)] ELSE saved

\* After do_yield: a process that ran user_entry is in user code.
Entered(k, ctx) ==
    IF Ok(k) /\ k.cpu.mode = "U" THEN [ctx EXCEPT ![k.current].pc = "user"] ELSE ctx

\* main: process::do_yield()
MainYield ==
    /\ panic = "none" /\ kctx[current].pc = "main"
    /\ \E k \in {do_yield(K)} :
         /\ Install(k)
         /\ kctx' = Entered(k, [kctx EXCEPT ![current].pc = "yielded"])
         /\ hist' = [hist EXCEPT !.op = "do_yield", !.from = current,
                                 !.saved = Switched(@, current, K, k)]
    /\ UNCHANGED console
    /\ UNCHANGED <<dev, blk, fs>>

\* User code traps; trap_vector saves the registers and calls trap_handler,
\* which reads scause, sepc and stval.
UserTrap ==
    /\ panic = "none" /\ cpu.mode = "U"
    /\ hist.traps[current] < MaxTraps
    /\ UNCHANGED <<dev, blk, fs>>
    /\ \E in \in UserTraps(K) :
       \E k \in {trap_vector_entry(take_trap([K EXCEPT !.cpu.pc = in.pc, !.cpu.x = in.x],
                                             in.cause, 0))} :
         /\ Install(k)
         /\ kctx' = [kctx EXCEPT ![current] = [pc |-> "trap_handler",
                                               frame |-> k.cpu.x[10].lo,
                                               user_pc |-> k.csr.sepc]]
         /\ console' = [console EXCEPT ![current] = <<>>]
         /\ hist' = [hist EXCEPT
               !.op = "trap", !.from = current, !.invoked = FALSE,
               !.traps[current] = @ + 1,
               !.ecall = [p \in Slots |->
                    IF p = current
                    THEN [pc |-> in.pc, x |-> in.x, sp0 |-> csr.sscratch.lo,
                          frame0 |-> FrameWords(k, k.cpu.x[10].lo),
                          nsepc |-> 0, between |-> 0,
                          missed |-> FALSE, got |-> -1, yields |-> 0,
                          yielded |-> FALSE]
                    ELSE IF @[p] # NoCall /\ kctx[p].pc \in {"getchar", "yield"}
                              /\ in.pc # @[p].pc
                              /\ @[p].between = 0
                         THEN [@[p] EXCEPT !.between = 1]
                         ELSE @[p]]]

\* trap_handler's match on scause and, for a syscall, handle_syscall up to
\* its return or to the loop of getchar_coop.
TrapHandler ==
    /\ panic = "none" /\ kctx[current].pc = "trap_handler"
    /\ LET c == kctx[current]
           what == trap_cause(csr.scause)
           arm == syscall_arm(LoadWord(K, c.frame + FrameSlot(13)))
       IN /\ hist' = [hist EXCEPT !.op = "trap_handler", !.from = current,
                                  !.invoked = (what = "syscall"),
                                  !.ecall[current].nsepc =
                                      IF what = "syscall" /\ arm = "putchar" THEN 1 ELSE 0]
          /\ IF what = "syscall" /\ arm = "putchar"
             THEN /\ console' = [console EXCEPT ![current] =
                        Append(@, LoadWord(K, c.frame + FrameSlot(10)).lo % 256)]
                  /\ csr' = [csr EXCEPT !.sepc = syscall_sepc(K, c.user_pc)]
                  /\ kctx' = [kctx EXCEPT ![current].pc = "return"]
                  /\ UNCHANGED panic
             ELSE IF what = "syscall" /\ arm = "getchar"
             THEN /\ kctx' = [kctx EXCEPT ![current].pc = "getchar"]
                  /\ UNCHANGED <<console, csr, panic>>
             ELSE /\ panic' = (IF what = "syscall" THEN "unknown syscall"
                               ELSE IF what = "unknown" THEN "unknown scause"
                               ELSE what)
                  /\ UNCHANGED <<console, csr, kctx>>
    /\ UNCHANGED <<procs, current, mutable, mem, kmem, cpu>>
    /\ UNCHANGED <<dev, blk, fs>>

\* getchar_coop: one getchar; a character ends handle_syscall, which stores
\* it in frame.x10 and advances sepc.
GetcharPoll ==
    /\ panic = "none" /\ kctx[current].pc = "getchar"
    /\ \E v \in SbiValues :
       LET opt == sbi_getchar(v)
           c == kctx[current]
           to == getchar_coop(opt)
       IN /\ IF to = "return"
             THEN \E k \in {StoreWord(K, c.frame + FrameSlot(10), W(opt.some))} :
                    /\ Install([k EXCEPT !.csr.sepc = syscall_sepc(K, c.user_pc)])
                    /\ hist' = [hist EXCEPT !.op = "getchar", !.from = current,
                                            !.ecall[current].nsepc = @ + 1,
                                            !.ecall[current].missed = FALSE,
                                            !.ecall[current].got = v,
                                            !.ecall[current].yields = 0]
             ELSE /\ UNCHANGED <<procs, current, mutable, mem, kmem, panic, csr, cpu>>
                  /\ hist' = [hist EXCEPT !.op = "getchar", !.from = current,
                                          !.ecall[current].missed = TRUE,
                                          !.ecall[current].yields = 0]
          /\ kctx' = [kctx EXCEPT ![current].pc = to]
    /\ UNCHANGED console
    /\ UNCHANGED <<dev, blk, fs>>

\* getchar_coop: do_yield() after a getchar that had no character.  The
\* process goes on with the loop when do_yield returns to it.
GetcharYield ==
    /\ panic = "none" /\ kctx[current].pc = "yield"
    /\ \E k0 \in {[K EXCEPT !.cpu.x[SP] = W(kctx[current].frame - RustFrameBytes)]} :
       \E k \in {do_yield(k0)} :
         /\ Install(k)
         /\ kctx' = Entered(k, [kctx EXCEPT ![current].pc = "getchar"])
         /\ hist' = [hist EXCEPT !.op = "do_yield", !.from = current,
                                 !.saved = Switched(@, current, k0, k),
                                 !.ecall[current].yields = @ + 1,
                                 !.ecall[current].yielded = TRUE]
    /\ UNCHANGED console
    /\ UNCHANGED <<dev, blk, fs>>

\* trap_handler returns; trap_vector reloads the registers and srets.
TrapReturn ==
    /\ panic = "none" /\ kctx[current].pc = "return"
    /\ \E k \in {trap_vector_return([K EXCEPT !.cpu.x[SP] = W(kctx[current].frame)])} :
         /\ Install(k)
         /\ kctx' = [kctx EXCEPT ![current].pc = "user"]
         /\ hist' = [hist EXCEPT
               !.op = "sret", !.from = current,
               !.saved[current] = None,
               !.ecall = [p \in Slots |->
                    IF p = current
                    THEN [pc |-> @[p].pc, x |-> @[p].x, got |-> @[p].got,
                          between |-> @[p].between]
                    ELSE IF @[p] # NoCall /\ kctx[p].pc \in {"getchar", "yield"}
                              /\ @[p].between = 1
                         THEN [@[p] EXCEPT !.between = 2]
                         ELSE @[p]]]
    /\ UNCHANGED console
    /\ UNCHANGED <<dev, blk, fs>>

NextTrap ==
    \/ MainYield
    \/ UserTrap
    \/ TrapHandler
    \/ GetcharPoll
    \/ GetcharYield
    \/ TrapReturn

SpecTrap == InitTrap /\ [][NextTrap]_vars

(***************************************************************************)
(* SpecMap: map_page called on one root table, as create_process makes it  *)
(* (alloc_pages(1) after the allocator's init), with virtual and physical  *)
(* addresses aligned or not and every PageFlags value.  The history holds  *)
(* the root and the last call's vaddr and paddr, and its flags when it      *)
(* returned.                                                               *)
(***************************************************************************)
\* Virtual addresses given to map_page: two pages under different
\* first-level entries, and an address inside a page.
MapVaddrs == {USER_BASE, kernel_start + PAGE_SIZE, USER_BASE + 8}
\* Physical addresses given to map_page: two frames, and an address inside
\* a frame.
MapPaddrs == {PAGE_SIZE, heap_end - PAGE_SIZE, kernel_start + 2048}

InitMap ==
    /\ procs = Scheduler_new.procs
    /\ current = Scheduler_new.current
    /\ \E a \in {alloc_pages([procs |-> Scheduler_new.procs,
                               current |-> Scheduler_new.current,
                               mutable |-> [next |-> heap_start, end |-> heap_end],
                               mem |-> <<>>, kmem |-> <<>>, panic |-> "none",
                               csr |-> CsrInit, cpu |-> CpuInit], 1)} :
         /\ mutable = a.k.mutable
         /\ mem = a.k.mem
         /\ hist = [op |-> "alloc_pages", root |-> a.addr, vaddr |-> 0, paddr |-> 0,
                    flags |-> PageFlags_kernel_all]
    /\ kmem = <<>>
    /\ panic = "none"
    /\ csr = CsrInit
    /\ cpu = CpuInit
    /\ kctx = <<>>
    /\ console = <<>>
    /\ dev = None
    /\ blk = None
    /\ fs = None

\* memory::map_page(root, Vaddr(vaddr), Paddr(paddr), flags)
MapPage ==
    /\ panic = "none"
    /\ \E vaddr \in MapVaddrs : \E paddr \in MapPaddrs : \E flags \in PageFlags :
       \E k \in {map_page(K, hist.root, vaddr, paddr, flags)} :
         /\ Install(k)
         /\ hist' = [op |-> "map_page", root |-> hist.root, vaddr |-> vaddr,
                     paddr |-> paddr,
                     flags |-> IF Ok(k) THEN flags ELSE PageFlags_kernel_all]
    /\ UNCHANGED <<kctx, console>>
    /\ UNCHANGED <<dev, blk, fs>>

NextMap == MapPage

SpecMap == InitMap /\ [][NextMap]_vars

(***************************************************************************)
(* SpecAlloc: the bump allocator after init(start, end), driven through    *)
(* alloc, alloc_pages and dealloc.  The history holds the arguments of     *)
(* init, the regions returned so far in order, the last request with the   *)
(* allocator's `next` before it, and whether dealloc was ever called.      *)
(***************************************************************************)
\* The calls of alloc and alloc_pages made in all.
MaxAllocs == 4
\* Arguments of init: a page-aligned start, and a start one byte later.
AllocRanges ==
    {[start |-> heap_start, end |-> heap_start + 2 * PAGE_SIZE + 16],
     [start |-> heap_start + 1, end |-> heap_start + 3 * PAGE_SIZE]}
\* Layouts given to alloc (GlobalAlloc requires a non-zero size), and page
\* counts given to alloc_pages.
Layouts ==
    {[size |-> 1, align |-> 1], [size |-> 24, align |-> 8], [size |-> PAGE_SIZE, align |-> 16]}
PageCounts == {1, 2}

InitAlloc ==
    /\ procs = Scheduler_new.procs
    /\ current = Scheduler_new.current
    /\ \E r \in AllocRanges :
         /\ mutable = init([mutable |-> None], r.start, r.end).mutable
         /\ hist = [op |-> "init", start |-> r.start, end |-> r.end, regions |-> <<>>,
                    req |-> [size |-> 0, align |-> 1], next0 |-> r.start,
                    freed |-> FALSE]
    /\ mem = <<>>
    /\ kmem = <<>>
    /\ panic = "none"
    /\ csr = CsrInit
    /\ cpu = CpuInit
    /\ kctx = <<>>
    /\ console = <<>>
    /\ dev = None
    /\ blk = None
    /\ fs = None

\* What a call that asked for `req` and got `a` leaves in the history.
Returned(op, req, a) ==
    [hist EXCEPT !.op = op, !.req = req, !.next0 = mutable.next,
                 !.regions = IF Ok(a.k)
                             THEN Append(@, [addr |-> a.addr, size |-> req.size,
                                             align |-> req.align])
                             ELSE @]

\* GLOBAL_ALLOCATOR.alloc(layout)
Alloc ==
    /\ panic = "none" /\ Len(hist.regions) < MaxAllocs
    /\ \E layout \in Layouts :
       \E a \in {alloc(K, layout.size, layout.align)} :
         /\ Install(a.k)
         /\ hist' = Returned("alloc", layout, a)
    /\ UNCHANGED <<kctx, console>>
    /\ UNCHANGED <<dev, blk, fs>>

\* memory::alloc_pages(n)
AllocPages ==
    /\ panic = "none" /\ Len(hist.regions) < MaxAllocs
    /\ \E n \in PageCounts :
       \E a \in {alloc_pages(K, n)} :
         /\ Install(a.k)
         /\ hist' = Returned("alloc_pages", [size |-> PAGE_SIZE * n, align |-> PAGE_SIZE], a)
    /\ UNCHANGED <<kctx, console>>
    /\ UNCHANGED <<dev, blk, fs>>

\* GLOBAL_ALLOCATOR.dealloc(ptr, layout) of a region returned earlier
Dealloc ==
    /\ panic = "none"
    /\ \E i \in 1 .. Len(hist.regions) :
         /\ Install(dealloc(K, hist.regions[i].addr))
         /\ hist' = [hist EXCEPT !.op = "dealloc", !.freed = TRUE]
    /\ UNCHANGED <<kctx, console>>
    /\ UNCHANGED <<dev, blk, fs>>

NextAlloc == Alloc \/ AllocPages \/ Dealloc

SpecAlloc == InitAlloc /\ [][NextAlloc]_vars

(***************************************************************************)
(* virtio.rs: the registers of the legacy MMIO block device.  The device   *)
(* is a record of what its registers read as (magic, version, device_id,   *)
(* capacity in sectors, status), the queue the driver programmed, the      *)
(* number of QUEUE_NOTIFY writes it has not served yet, the log of every   *)
(* register access in order, and the disk: its sectors by number.          *)
(***************************************************************************)
SECTOR_SIZE == 512
VIRTQ_ENTRY_NUM == 16
VIRTIO_DEVICE_BLK == 2
\* 0x74726976, and the version of the legacy transport
VIRTIO_MAGIC == 1953655158
VIRTIO_VERSION == 1
VIRTIO_REG_MAGIC == 0
VIRTIO_REG_VERSION == 4
VIRTIO_REG_DEVICE_ID == 8
VIRTIO_REG_QUEUE_SEL == 48
VIRTIO_REG_QUEUE_NUM == 56
VIRTIO_REG_QUEUE_ALIGN == 60
VIRTIO_REG_QUEUE_PFN == 64
VIRTIO_REG_QUEUE_NOTIFY == 80
VIRTIO_REG_DEVICE_STATUS == 112
VIRTIO_REG_DEVICE_CONFIG == 256
VIRTIO_STATUS_ACK == 1
VIRTIO_STATUS_DRIVER == 2
VIRTIO_STATUS_DRIVER_OK == 4
VIRTIO_STATUS_FEAT_OK == 8
VIRTQ_DESC_F_NEXT == 1
VIRTQ_DESC_F_WRITE == 2
VIRTIO_BLK_T_IN == 0
VIRTIO_BLK_T_OUT == 1

Logged(d, op, reg, val) ==
    [d EXCEPT !.log = Append(@, [op |-> op, reg |-> reg, val |-> val])]
\* What a register reads as.
RegValue(d, offset) ==
    CASE offset = VIRTIO_REG_MAGIC -> d.magic
      [] offset = VIRTIO_REG_VERSION -> d.version
      [] offset = VIRTIO_REG_DEVICE_ID -> d.device_id
      [] offset = VIRTIO_REG_DEVICE_STATUS -> d.status
      [] offset = VIRTIO_REG_DEVICE_CONFIG -> d.capacity
      [] OTHER -> 0
\* What a register write does to the device.
RegWritten(d, offset, value) ==
    CASE offset = VIRTIO_REG_DEVICE_STATUS -> [d EXCEPT !.status = value]
      [] offset = VIRTIO_REG_QUEUE_SEL -> [d EXCEPT !.queue.sel = value]
      [] offset = VIRTIO_REG_QUEUE_NUM -> [d EXCEPT !.queue.num = value]
      [] offset = VIRTIO_REG_QUEUE_ALIGN -> [d EXCEPT !.queue.align = value]
      [] offset = VIRTIO_REG_QUEUE_PFN -> [d EXCEPT !.queue.pfn = value]
      [] offset = VIRTIO_REG_QUEUE_NOTIFY -> [d EXCEPT !.notified = @ + 1]
      [] OTHER -> d

virtio_reg_read32(d, offset) ==
    Sole({ [dev |-> Logged(x, "r32", offset, RegValue(x, offset)),
            val |-> RegValue(x, offset)] : x \in {d} })
virtio_reg_write32(d, offset, value) ==
    Sole({ RegWritten(Logged(x, "w32", offset, value), offset, value) : x \in {d} })
virtio_reg_read64(d, offset) ==
    Sole({ [dev |-> Logged(x, "r64", offset, RegValue(x, offset)),
            val |-> RegValue(x, offset)] : x \in {d} })
virtio_reg_write64(d, offset, value) ==
    Sole({ RegWritten(Logged(x, "w64", offset, value), offset, value) : x \in {d} })
\* addr.write_volatile(addr.read_volatile() | value)
virtio_reg_fetch_and_or32(d, offset, value) ==
    Sole({ virtio_reg_write32(r.dev, offset, BitOr(r.val, value))
           : r \in {virtio_reg_read32(d, offset)} })

\* memory::align_up, which virtio.rs imports: value rounded up to a
\* multiple of align.
align_up(value, align) == ((value + align - 1) \div align) * align

\* size_of::<Virtq>(): the packed record of descriptors (16 bytes each),
\* available ring, padding, used ring, queue_index, used_index and
\* last_used_index.
size_of_Virtq ==
    LET descriptors == 16 * VIRTQ_ENTRY_NUM
        available == 2 + 2 + 2 * VIRTQ_ENTRY_NUM
        padding == PAGE_SIZE - ((descriptors + available) % PAGE_SIZE)
        used == 2 + 2 + 8 * VIRTQ_ENTRY_NUM
    IN descriptors + available + padding + used + 4 + 8 + 2

Descriptor_default == [addr |-> 0, len |-> 0, flags |-> 0, next |-> 0]

\* Virtq::init(index): the zeroed pages of the queue, and the four register
\* writes that program it.
Virtq_init(k, d, index) ==
    Sole({ IF ~Ok(a.k) THEN [k |-> a.k, dev |-> d, virtq |-> None]
           ELSE [k |-> a.k,
                 dev |-> virtio_reg_write64(
                            virtio_reg_write32(
                              virtio_reg_write32(
                                virtio_reg_write32(d, VIRTIO_REG_QUEUE_SEL, index),
                                VIRTIO_REG_QUEUE_NUM, VIRTQ_ENTRY_NUM),
                              VIRTIO_REG_QUEUE_ALIGN, 0),
                            VIRTIO_REG_QUEUE_PFN, a.addr),
                 virtq |-> [addr |-> a.addr,
                            descriptors |-> [i \in 0 .. (VIRTQ_ENTRY_NUM - 1) |->
                                                Descriptor_default],
                            available |-> [flags |-> 0, index |-> 0,
                                           ring |-> [i \in 0 .. (VIRTQ_ENTRY_NUM - 1) |-> 0]],
                            used |-> [flags |-> 0, index |-> 0],
                            queue_index |-> index,
                            last_used_index |-> 0]]
           : a \in {alloc_pages(k, align_up(size_of_Virtq, PAGE_SIZE) \div PAGE_SIZE)} })

\* The driver before BlockDeviceDriver::new(), and what new() makes of it.
\* `seen` is the memory the driver shares with the device as the device can
\* observe it: the driver's plain stores to the virtqueue and to the request
\* are certain to be there once a fence has followed them.
\* `build` is what the compiler made of the loop `while self.is_busy() {}`,
\* whose condition is a plain (non-volatile) read of memory that the
\* device writes: "reread" reads used.index in every turn, "hoisted" has
\* moved the read out of the loop, so that a loop entered busy never ends.
NoDriver == [pc |-> "start", capacity |-> 0, virtq |-> None, request |-> None,
             seen |-> None, call |-> None, result |-> None, build |-> "reread",
             spill |-> <<>>]
PollBuilds == {"reread", "hoisted"}

\* new(), from the reset of the device on.
new_handshake(k, d) ==
    Sole({ IF ~Ok(q.k) THEN [k |-> q.k, dev |-> q.dev, blk |-> NoDriver]
           ELSE Sole({ [k |-> q.k, dev |-> c.dev,
                        blk |-> [NoDriver EXCEPT !.pc = "ready",
                                                 !.capacity = c.val * SECTOR_SIZE,
                                                 !.virtq = q.virtq,
                                                 !.seen = [virtq |-> q.virtq,
                                                           request |-> None]]]
                       : c \in {virtio_reg_read64(
                                  virtio_reg_write32(q.dev, VIRTIO_REG_DEVICE_STATUS,
                                                     VIRTIO_STATUS_DRIVER_OK),
                                  VIRTIO_REG_DEVICE_CONFIG)} })
           : q \in {Virtq_init(k,
                      virtio_reg_fetch_and_or32(
                        virtio_reg_fetch_and_or32(
                          virtio_reg_fetch_and_or32(
                            virtio_reg_write32(d, VIRTIO_REG_DEVICE_STATUS, 0),
                            VIRTIO_REG_DEVICE_STATUS, VIRTIO_STATUS_ACK),
                          VIRTIO_REG_DEVICE_STATUS, VIRTIO_STATUS_DRIVER),
                        VIRTIO_REG_DEVICE_STATUS, VIRTIO_STATUS_FEAT_OK),
                      0)} })

\* BlockDeviceDriver::new(): the three sanity checks, then the handshake.
BlockDeviceDriver_new(k, d) ==
    LET fail(d1, msg) == [k |-> Panic(k, msg), dev |-> d1, blk |-> NoDriver] IN
    Sole({ IF r1.val # VIRTIO_MAGIC THEN fail(r1.dev, "virtio: Invalid magic")
           ELSE Sole({ IF r2.val # VIRTIO_VERSION
                       THEN fail(r2.dev, "virtio: Invalid version")
                       ELSE Sole({ IF r3.val # VIRTIO_DEVICE_BLK
                                   THEN fail(r3.dev, "virtio: Invalid device")
                                   ELSE new_handshake(k, r3.dev)
                                   : r3 \in {virtio_reg_read32(r2.dev,
                                                               VIRTIO_REG_DEVICE_ID)} })
                       : r2 \in {virtio_reg_read32(r1.dev, VIRTIO_REG_VERSION)} })
           : r1 \in {virtio_reg_read32(d, VIRTIO_REG_MAGIC)} })

\* A byte array of n bytes b, and ptr::copy_nonoverlapping(src, dst, count)
\* on byte arrays: the first count bytes of dst become those of src.
Bytes(n, b) == [i \in 1 .. n |-> b]
copy_nonoverlapping(src, dst, count) ==
    [i \in 1 .. Len(dst) |-> IF i <= count THEN src[i] ELSE dst[i]]

\* BlockRequest::default(), and the offsets of data and status in the
\* packed record {type_: u32, reserved: u32, sector: u64, data, status}.
BlockRequest_default ==
    [type_ |-> 0, reserved |-> 0, sector |-> 0, data |-> Bytes(SECTOR_SIZE, 0),
     status |-> 0]
offset_of_data == 4 + 4 + 8
offset_of_status == offset_of_data + Len(BlockRequest_default.data)
\* addr_of!(request): the local of disk_read / disk_write, on the boot stack.
request_addr == stack_top - 1024

\* IOError values and Ok(())
IOError(kind, a, b) == [err |-> kind, a |-> a, b |-> b]
Ok_unit == [ok |-> TRUE]

\* The descriptor chain with NEXT | WRITE on the data descriptor whatever
\* the request.
chain_data_writable(vq, address, data_flags) ==
    [vq EXCEPT
       !.descriptors[0] = [addr |-> address, len |-> 4 * 2 + 8,
                           flags |-> VIRTQ_DESC_F_NEXT, next |-> 1],
       !.descriptors[1] = [addr |-> address + offset_of_data, len |-> SECTOR_SIZE,
                           flags |-> BitOr(VIRTQ_DESC_F_NEXT, VIRTQ_DESC_F_WRITE),
                           next |-> 2],
       !.descriptors[2] = [@ EXCEPT !.addr = address + offset_of_status,
                                    !.len = 1,
                                    !.flags = VIRTQ_DESC_F_WRITE]]

\* disk_read / disk_write: the writes to descriptors[0], [1] and [2];
\* data_flags is what the function gives descriptor 1.
chain(vq, address, data_flags) ==
    [vq EXCEPT
       !.descriptors[0] = [addr |-> address, len |-> 4 * 2 + 8,
                           flags |-> VIRTQ_DESC_F_NEXT, next |-> 1],
       !.descriptors[1] = [addr |-> address + offset_of_data, len |-> SECTOR_SIZE,
                           flags |-> data_flags, next |-> 2],
       !.descriptors[2] = [@ EXCEPT !.addr = address + offset_of_status,
                                    !.len = 1,
                                    !.flags = VIRTQ_DESC_F_WRITE]]

\* No fence: the stores made so far have not reached the device's view.
fence_none(b) == b
\* fence(Ordering::SeqCst): every store made before it is visible to the
\* device before anything that follows it.
fence(b) == [b EXCEPT !.seen = [virtq |-> b.virtq, request |-> b.request]]

\* kick(desc_index) up to and with the write of QUEUE_NOTIFY: the ring
\* entry, available.index, the fence, the register write.
kick_notify(b, d, desc_index) ==
    LET index == b.virtq.available.index % VIRTQ_ENTRY_NUM IN
    Sole({ [blk |-> [f EXCEPT !.pc = "kicked"],
            dev |-> virtio_reg_write32(d, VIRTIO_REG_QUEUE_NOTIFY, f.virtq.queue_index)]
           : f \in {fence([b EXCEPT !.virtq.available.ring[index] = desc_index,
                                    !.virtq.available.index = (@ + 1) % 65536])} })
\* kick: self.vq().last_used_index += 1
kick_return(b) ==
    [b EXCEPT !.virtq.last_used_index = (@ + 1) % 65536, !.pc = "poll"]

\* is_busy that lets the driver go on one completion early.
is_busy_early(b) == b.virtq.last_used_index # (b.virtq.used.index + 1) % 65536
is_busy(b) == b.virtq.last_used_index # b.virtq.used.index
\* The range check with sector == capacity / SECTOR_SIZE let through.
assert_sector_in_range_incl(b, sector) == sector <= b.capacity \div SECTOR_SIZE
assert_sector_in_range(b, sector) == sector < b.capacity \div SECTOR_SIZE
BlockRequest_ok(request) == request.status = 0

\* A call that returns `result` without a request.
returns(b, d, call, result) ==
    [blk |-> [b EXCEPT !.pc = "ready", !.call = call, !.result = result,
                       !.request = None],
     dev |-> d]

\* disk_read with a buffer of exactly SECTOR_SIZE bytes refused.
disk_read_le(b, d, buf, sector) ==
    LET call == [kind |-> "read", buf0 |-> buf, buf |-> buf, sector |-> sector] IN
    IF Len(buf) <= SECTOR_SIZE
    THEN returns(b, d, call, IOError("NotEnoughSpaceForRead", Len(buf), 0))
    ELSE IF ~assert_sector_in_range(b, sector)
    THEN returns(b, d, call, IOError("InvalidSector", sector, b.capacity))
    ELSE kick_notify(
           [b EXCEPT !.call = call, !.result = None, !.spill = <<>>,
                     !.request = [BlockRequest_default EXCEPT
                                     !.sector = sector, !.type_ = VIRTIO_BLK_T_IN],
                     !.virtq = chain(@, request_addr,
                                     BitOr(VIRTQ_DESC_F_NEXT, VIRTQ_DESC_F_WRITE))],
           d, 0)

\* disk_read(buf, sector) up to the write of QUEUE_NOTIFY, or to its return
\* with a validation error.
disk_read(b, d, buf, sector) ==
    LET call == [kind |-> "read", buf0 |-> buf, buf |-> buf, sector |-> sector] IN
    IF Len(buf) < SECTOR_SIZE
    THEN returns(b, d, call, IOError("NotEnoughSpaceForRead", Len(buf), 0))
    ELSE IF ~assert_sector_in_range(b, sector)
    THEN returns(b, d, call, IOError("InvalidSector", sector, b.capacity))
    ELSE kick_notify(
           [b EXCEPT !.call = call, !.result = None, !.spill = <<>>,
                     !.request = [BlockRequest_default EXCEPT
                                     !.sector = sector, !.type_ = VIRTIO_BLK_T_IN],
                     !.virtq = chain(@, request_addr,
                                     BitOr(VIRTQ_DESC_F_NEXT, VIRTQ_DESC_F_WRITE))],
           d, 0)

\* disk_write(buf, sector), likewise.  copy_nonoverlapping is given
\* buf.len() as its count: of a longer buffer, byte 513 lands on
\* request.status, which follows data in the packed record, and the bytes
\* after it on the stack behind the request (spill).
disk_write(b, d, buf, sector) ==
    LET call == [kind |-> "write", buf0 |-> buf, buf |-> buf, sector |-> sector] IN
    IF ~assert_sector_in_range(b, sector)
    THEN returns(b, d, call, IOError("InvalidSector", sector, b.capacity))
    ELSE kick_notify(
           [b EXCEPT !.call = call, !.result = None,
                     !.request = [BlockRequest_default EXCEPT
                                     !.sector = sector, !.type_ = VIRTIO_BLK_T_OUT,
                                     !.data = copy_nonoverlapping(buf, @, Len(buf)),
                                     !.status = IF Len(buf) > SECTOR_SIZE
                                                THEN buf[SECTOR_SIZE + 1] ELSE @],
                     !.spill = SubSeq(buf, offset_of_status - offset_of_data + 2, Len(buf)),
                     !.virtq = chain(@, request_addr, VIRTQ_DESC_F_NEXT)],
           d, 0)

\* disk_read after the loop, with the copy made before the status is looked at.
disk_read_copy_first(b) ==
    [b EXCEPT !.pc = "ready", !.request = None,
              !.call.buf = copy_nonoverlapping(b.request.data, @, SECTOR_SIZE),
              !.result = IF ~BlockRequest_ok(b.request)
                         THEN IOError("ReadFail", b.call.sector, b.request.status)
                         ELSE Ok_unit]

\* disk_read after the loop `while self.is_busy() {}`.
\* A variant of disk_read's completion that copies one byte less than a
\* sector.
disk_read_done_short(b) ==
    IF ~BlockRequest_ok(b.request)
    THEN [b EXCEPT !.pc = "ready", !.request = None,
                   !.result = IOError("ReadFail", b.call.sector, b.request.status)]
    ELSE [b EXCEPT !.pc = "ready", !.request = None,
                   !.call.buf = copy_nonoverlapping(b.request.data, @, SECTOR_SIZE - 1),
                   !.result = Ok_unit]

disk_read_done(b) ==
    IF ~BlockRequest_ok(b.request)
    THEN [b EXCEPT !.pc = "ready", !.request = None,
                   !.result = IOError("ReadFail", b.call.sector, b.request.status)]
    ELSE [b EXCEPT !.pc = "ready", !.request = None,
                   !.call.buf = copy_nonoverlapping(b.request.data, @, SECTOR_SIZE),
                   !.result = Ok_unit]

\* disk_write after the loop.
disk_write_done(b) ==
    [b EXCEPT !.pc = "ready", !.request = None,
              !.result = IF BlockRequest_ok(b.request) THEN Ok_unit
                         ELSE IOError("WriteFail", b.call.sector, b.request.status)]

\* The device serves one notification: it takes the head of the chain from
\* the available ring, reads the header where descriptor `head` points, and
\* writes through the descriptors that are device-writable: the sector for
\* a request of type IN, the status byte; then it advances used.index.
HasFlag(flags, f) == (flags \div f) % 2 = 1
device_serve(b, d, status, data) ==
    LET vq == b.seen.virtq
        req == b.seen.request
        head == vq.available.ring[b.virtq.used.index % VIRTQ_ENTRY_NUM]
        d0 == vq.descriptors[head]
        d1 == vq.descriptors[d0.next]
        d2 == vq.descriptors[d1.next]
        seen == req # None /\ d0.addr = request_addr
        writes_data == /\ seen /\ req.type_ = VIRTIO_BLK_T_IN
                       /\ HasFlag(d1.flags, VIRTQ_DESC_F_WRITE)
                       /\ d1.addr = request_addr + offset_of_data
        writes_status == /\ seen /\ HasFlag(d2.flags, VIRTQ_DESC_F_WRITE)
                         /\ d2.addr = request_addr + offset_of_status
        \* the device's stores, on the request as it lies in memory
        written(r) == IF ~seen \/ r = None THEN r
                      ELSE [r EXCEPT
                              !.data = IF writes_data
                                       THEN copy_nonoverlapping(data, @, d1.len)
                                       ELSE @,
                              !.status = IF writes_status THEN status ELSE @]
        \* a request of type OUT that the device completes with status 0
        \* has put the data descriptor's bytes into the sector
        stores == /\ seen /\ req.type_ = VIRTIO_BLK_T_OUT /\ status = 0
                  /\ d1.addr = request_addr + offset_of_data
                  /\ req.sector \in DOMAIN d.disk
    IN [blk |-> [b EXCEPT
                   !.request = written(@),
                   !.seen.request = written(@),
                   !.virtq.used.index = (@ + 1) % 65536,
                   !.seen.virtq.used.index = (@ + 1) % 65536],
        dev |-> [d EXCEPT !.notified = @ - 1,
                          !.disk = IF stores
                                   THEN [@ EXCEPT ![req.sector] =
                                           copy_nonoverlapping(req.data, @, d1.len)]
                                   ELSE @]]

\* What a correct device answers the pending request with: status 0, and
\* for a read the sector as it is on the disk.
SectorOf(b, d) ==
    IF b.seen.request # None /\ b.seen.request.sector \in DOMAIN d.disk
    THEN d.disk[b.seen.request.sector] ELSE Bytes(SECTOR_SIZE, 0)
Correct(b, d, status, data) ==
    /\ status = 0
    /\ (b.seen.request # None /\ b.seen.request.type_ = VIRTIO_BLK_T_IN)
       => data = SectorOf(b, d)

(***************************************************************************)
(* SpecBlk: the driver from BlockDeviceDriver::new() on, with its device.  *)
(* A call of disk_read or disk_write is three steps of the driver (up to   *)
(* the QUEUE_NOTIFY write, the rest of kick, the end of the polling loop   *)
(* with what follows it), and the device serves a notification at any time *)
(* after it.  The history holds the name of the last step and what the     *)
(* device left in request.status and request.data when it served.          *)
(***************************************************************************)
\* Requests submitted in all.
MaxRequests == 2
\* What the device registers read as: right and wrong magic, version and
\* device id, a disk of no sector and of two, a status left set or clear.
DiskSector(n) == [i \in 1 .. SECTOR_SIZE |-> (i + 100 + n) % 256]
Devices ==
    { [magic |-> m, version |-> v, device_id |-> i, capacity |-> c, status |-> s,
       queue |-> [sel |-> 0, num |-> 0, align |-> 0, pfn |-> 0],
       notified |-> 0, log |-> <<>>,
       disk |-> [n \in 0 .. c - 1 |-> DiskSector(n)]]
      : m \in {VIRTIO_MAGIC, 0}, v \in {VIRTIO_VERSION, 2},
        i \in {VIRTIO_DEVICE_BLK, 1}, c \in {0, 2}, s \in {0, 15} }
\* Buffers and sectors the caller gives, status bytes and sector contents
\* the device answers with.
ReadBufs == {Bytes(n, 170) : n \in {SECTOR_SIZE - 1, SECTOR_SIZE, SECTOR_SIZE + 8}}
WriteBufs == {Bytes(n, 65) : n \in {19, SECTOR_SIZE, SECTOR_SIZE + 8}}
Sectors == {0, 1, 2}
DevStatuses == {0, 1, 2}
DevData == {Bytes(SECTOR_SIZE, 7), [i \in 1 .. SECTOR_SIZE |-> i % 256]}

InitBlk ==
    /\ procs = Scheduler_new.procs
    /\ current = Scheduler_new.current
    /\ mutable = [next |-> heap_start, end |-> heap_end]
    /\ mem = <<>>
    /\ kmem = <<>>
    /\ panic = "none"
    /\ csr = CsrInit
    /\ cpu = CpuInit
    /\ kctx = <<>>
    /\ console = <<>>
    /\ dev \in Devices
    /\ blk \in {[NoDriver EXCEPT !.build = b] : b \in PollBuilds}
    /\ fs = None
    /\ hist = [op |-> "boot", status |-> 0, data |-> <<>>, err_at |-> -1,
               correct |-> TRUE, disk0 |-> dev.disk,
               last |-> [n \in DOMAIN dev.disk |-> <<>>]]

\* The history's err_at after a call that left the driver as b: the number
\* of requests submitted before the last call that returned a validation
\* error, -1 when there was none.
ErrAt(b) == IF b.pc = "ready" THEN b.virtq.available.index ELSE hist.err_at

\* BlockDeviceDriver::new()
DriverNew ==
    /\ panic = "none" /\ blk.pc = "start"
    /\ \E r \in {BlockDeviceDriver_new(K, dev)} :
         /\ Install(r.k)
         /\ dev' = r.dev
         /\ blk' = [r.blk EXCEPT !.build = blk.build]
    /\ hist' = [hist EXCEPT !.op = "new"]
    /\ UNCHANGED <<kctx, console, fs>>

\* driver.disk_read(&mut buf, sector), to its QUEUE_NOTIFY or its error
DiskRead ==
    /\ panic = "none" /\ blk.pc = "ready"
    /\ blk.virtq.available.index < MaxRequests
    /\ \E buf \in ReadBufs : \E sector \in Sectors :
       \E r \in {disk_read(blk, dev, buf, sector)} :
         /\ blk' = r.blk
         /\ dev' = r.dev
         /\ hist' = [hist EXCEPT !.op = "disk_read", !.status = 0, !.data = <<>>,
                                 !.err_at = ErrAt(r.blk), !.disk0 = dev.disk]
    /\ UNCHANGED <<procs, current, mutable, mem, kmem, panic, csr, cpu, kctx, console, fs>>

\* driver.disk_write(&buf, sector), to its QUEUE_NOTIFY or its error
DiskWrite ==
    /\ panic = "none" /\ blk.pc = "ready"
    /\ blk.virtq.available.index < MaxRequests
    /\ \E buf \in WriteBufs : \E sector \in Sectors :
       \E r \in {disk_write(blk, dev, buf, sector)} :
         /\ blk' = r.blk
         /\ dev' = r.dev
         /\ hist' = [hist EXCEPT !.op = "disk_write", !.status = 0, !.data = <<>>,
                                 !.err_at = ErrAt(r.blk), !.disk0 = dev.disk]
         \* What a write beyond the request hits on the stack is the
         \* compiler's layout: the kernel goes on, or it is brought down.
         /\ panic' \in {panic} \cup (IF r.blk.spill # <<>>
                                      THEN {"stack overwritten by disk_write"} ELSE {})
    /\ UNCHANGED <<procs, current, mutable, mem, kmem, csr, cpu, kctx, console, fs>>

\* kick, after the QUEUE_NOTIFY write
KickReturn ==
    /\ panic = "none" /\ blk.pc = "kicked"
    /\ blk' = kick_return(blk)
    /\ hist' = [hist EXCEPT !.op = "kick"]
    /\ UNCHANGED <<procs, current, mutable, mem, kmem, panic, csr, cpu, kctx, console, dev, fs>>

\* The device completes the request it was notified of.
Device ==
    /\ panic = "none" /\ dev.notified > 0
    /\ \E status \in DevStatuses : \E data \in DevData \cup {SectorOf(blk, dev)} :
       \E r \in {device_serve(blk, dev, status, data)} :
         /\ blk' = r.blk
         /\ dev' = r.dev
         /\ hist' = [hist EXCEPT !.op = "device", !.status = r.blk.request.status,
                                 !.data = r.blk.request.data,
                                 !.correct = @ /\ Correct(blk, dev, status, data)]
    /\ UNCHANGED <<procs, current, mutable, mem, kmem, panic, csr, cpu, kctx, console, fs>>

\* The loop `while self.is_busy() {}` ends, and the call returns.
Poll ==
    /\ panic = "none" /\ blk.pc = "poll" /\ ~is_busy(blk)
    /\ blk' = IF blk.call.kind = "read" THEN disk_read_done(blk) ELSE disk_write_done(blk)
    /\ hist' = [hist EXCEPT
          !.op = "return",
          \* the bytes of the last successful write of a whole sector
          !.last = IF blk.call.kind = "write" /\ BlockRequest_ok(blk.request)
                   THEN [@ EXCEPT ![blk.call.sector] =
                           IF Len(blk.call.buf0) = SECTOR_SIZE THEN blk.call.buf0
                           ELSE <<>>]
                   ELSE @]
    /\ UNCHANGED <<procs, current, mutable, mem, kmem, panic, csr, cpu, kctx, console, dev, fs>>

\* The loop `while self.is_busy() {}` with the read of used.index moved out
\* of it, entered busy: it spins whatever the device does from now on.
PollHoisted ==
    /\ panic = "none" /\ blk.pc = "poll" /\ blk.build = "hoisted" /\ is_busy(blk)
    /\ blk' = [blk EXCEPT !.pc = "spin"]
    /\ hist' = [hist EXCEPT !.op = "spin"]
    /\ UNCHANGED <<procs, current, mutable, mem, kmem, panic, csr, cpu, kctx, console, dev, fs>>

NextBlk ==
    DriverNew \/ DiskRead \/ DiskWrite \/ KickReturn \/ Device \/ Poll \/ PollHoisted

SpecBlk == InitBlk /\ [][NextBlk]_vars

\* SpecBlk with a driver that keeps running (kick goes on after its
\* register write, a loop that finds the request completed is left) and a
\* device that serves every notification in the end.
SpecBlkFair ==
    SpecBlk /\ WF_vars(KickReturn) /\ WF_vars(Poll) /\ WF_vars(Device)

(***************************************************************************)
(* common::oct2int.  A byte is a number in 0 .. 255.  A u64 is held as its *)
(* 22 octal digits, most significant first; the first of them is bit 63    *)
(* alone.  `dec * 8` overflows a u64 when one of the bits 61 .. 63 of dec  *)
(* is set: a build with overflow checks panics there, a build without them *)
(* keeps the low 64 bits.                                                  *)
(***************************************************************************)
Char0 == 48
Char7 == 55
U64_DIGITS == 22
u64_zero == [i \in 1 .. U64_DIGITS |-> 0]
Builds == {"overflow-checks", "wrapping"}

\* dec * 8 + c for a digit c < 8 (the addition cannot carry: the low three
\* bits of dec * 8 are zero)
mul8_add(r, c, build) ==
    IF r.panic # "none" THEN r
    ELSE IF (r.dec[1] # 0 \/ r.dec[2] >= 2) /\ build = "overflow-checks"
    THEN [r EXCEPT !.panic = "attempt to multiply with overflow"]
    ELSE [r EXCEPT !.dec = [i \in 1 .. U64_DIGITS |->
                              IF i = 1 THEN r.dec[2] % 2
                              ELSE IF i = U64_DIGITS THEN c
                              ELSE r.dec[i + 1]]]

\* The loop of oct2int that takes every byte in '0' ..= '8' as a digit.
RECURSIVE oct2int_to8(_, _, _, _)
oct2int_to8(oct, i, r, build) ==
    IF i > Len(oct) \/ r.panic # "none" THEN r
    ELSE IF oct[i] < Char0 \/ oct[i] > Char7 + 1 THEN r
    ELSE oct2int_to8(oct, i + 1, mul8_add(r, (oct[i] - Char0) % 8, build), build)

\* for c in oct { if *c < b'0' || *c > b'7' { break; } dec = dec * 8 + (*c - b'0') }
\* from the i-th byte on, with dec in r.
RECURSIVE oct2int_from(_, _, _, _)
oct2int_from(oct, i, r, build) ==
    IF i > Len(oct) \/ r.panic # "none" THEN r
    ELSE IF oct[i] < Char0 \/ oct[i] > Char7 THEN r
    ELSE oct2int_from(oct, i + 1, mul8_add(r, oct[i] - Char0, build), build)

oct2int(oct, build) == oct2int_from(oct, 1, [dec |-> u64_zero, panic |-> "none"], build)

\* A digit string without its leading zeros, and the digits of the longest
\* prefix of s made of bytes '0' .. '7'.
RECURSIVE Significant(_)
Significant(ds) ==
    IF ds = <<>> \/ ds[1] # 0 THEN ds ELSE Significant(Tail(ds))
RECURSIVE OctalPrefix(_)
OctalPrefix(s) ==
    IF s = <<>> \/ s[1] < Char0 \/ s[1] > Char7 THEN <<>>
    ELSE <<s[1] - Char0>> \o OctalPrefix(Tail(s))
\* The number a digit string stands for, where it is below 2^31.
RECURSIVE OctalValue(_)
OctalValue(ds) ==
    IF ds = <<>> THEN 0 ELSE 8 * OctalValue(SubSeq(ds, 1, Len(ds) - 1)) + ds[Len(ds)]

(***************************************************************************)
(* SpecOct: oct2int applied to a byte string.                              *)
(***************************************************************************)
\* Bytes the strings are made of: '0', '1', '7', the two neighbours of the
\* digit range '/' and '8', a space and NUL.
OctBytes == {Char0, Char0 + 1, Char7, Char0 - 1, Char7 + 1, 32, 0}
\* The strings of every length up to MaxOctLen, and longer digit strings
\* around the width of a u64: 21 and 22 sevens, 1 and 2 followed by 21
\* zeros or sevens, the same after a leading zero and before a space.
MaxOctLen == 3
RECURSIVE Strings(_, _)
Strings(A, n) ==
    IF n = 0 THEN {<<>>}
    ELSE LET S == Strings(A, n - 1) IN S \cup {<<a>> \o s : a \in A, s \in {t \in S : Len(t) = n - 1}}
LongDigits ==
    {Bytes(n, Char7) : n \in {U64_DIGITS - 1, U64_DIGITS}}
    \cup {<<c>> \o Bytes(U64_DIGITS - 1, d) : c \in {Char0 + 1, Char0 + 2}, d \in {Char0, Char7}}
OctInputs ==
    Strings(OctBytes, MaxOctLen)
    \cup {<<48, 48, 48, 48, 48, 48, 48, 48, 48, 48, 55, 32>>}
    \cup {p \o s \o t : p \in {<<>>, <<Char0>>}, s \in LongDigits, t \in {<<>>, <<32, Char7>>}}

InitOct ==
    /\ procs = Scheduler_new.procs
    /\ current = Scheduler_new.current
    /\ mutable = [next |-> heap_start, end |-> heap_end]
    /\ mem = <<>>
    /\ kmem = <<>>
    /\ panic = "none"
    /\ csr = CsrInit
    /\ cpu = CpuInit
    /\ kctx = <<>>
    /\ console = <<>>
    /\ dev = None
    /\ blk = None
    /\ fs \in {[oct |-> s, build |-> b, ret |-> None] : s \in OctInputs, b \in Builds}
    /\ hist = [op |-> "input"]

\* oct2int(oct)
Oct2Int ==
    /\ fs.ret = None
    /\ fs' = [fs EXCEPT !.ret = oct2int(fs.oct, fs.build)]
    /\ hist' = [op |-> "oct2int"]
    /\ UNCHANGED <<procs, current, mutable, mem, kmem, panic, csr, cpu, kctx, console,
                   dev, blk>>

NextOct == Oct2Int

SpecOct == InitOct /\ [][NextOct]_vars

(***************************************************************************)
(* The tarfile crate: the nom parsers of tar_file.  A parser takes the     *)
(* input with the place it stands at (the bytes before pos are consumed)   *)
(* and gives [ok |-> TRUE, out, pos] with the place after what it          *)
(* consumed, or an error; the parsers are the `complete` ones, for which   *)
(* input that ends early is an error.  A panic inside a parser is the      *)
(* result [ok |-> FALSE, err |-> "panic"].                                 *)
(***************************************************************************)
BLOCK_SIZE == 512

ParseOk(out, pos) == [ok |-> TRUE, out |-> out, pos |-> pos]
ParseErr(kind) == [ok |-> FALSE, err |-> kind]

\* nom::bytes::complete::take(n)
take(i, pos, n) ==
    IF Len(i) - (pos - 1) >= n THEN ParseOk(SubSeq(i, pos, pos + n - 1), pos + n)
    ELSE ParseErr("Eof")
\* nom::bytes::complete::tag(t)
tag(i, pos, t) ==
    IF Len(i) - (pos - 1) >= Len(t) /\ \A j \in 1 .. Len(t) : i[pos + j - 1] = t[j]
    THEN ParseOk(t, pos + Len(t))
    ELSE ParseErr("Tag")
\* nom::bytes::complete::is_not(b): the bytes up to the first b or the end
\* of the input, one at least
is_not(i, pos, b) ==
    LET stops == {j \in pos .. Len(i) : i[j] = b}
        end == IF stops = {} THEN Len(i) + 1
               ELSE CHOOSE j \in stops : \A k \in stops : j <= k
    IN IF end = pos THEN ParseErr("IsNot") ELSE ParseOk(SubSeq(i, pos, end - 1), end)

\* String::from_utf8_lossy on strings of ASCII bytes and bytes that belong
\* to no UTF-8 sequence (0xFF here): an ASCII byte stands for itself, the
\* other is replaced by U+FFFD, the three bytes EF BF BD.
RECURSIVE from_utf8_lossy(_)
from_utf8_lossy(v) ==
    IF v = <<>> THEN <<>>
    ELSE IF Len(v) = 1 THEN (IF v[1] < 128 THEN v ELSE <<239, 191, 189>>)
    ELSE from_utf8_lossy(SubSeq(v, 1, Len(v) \div 2))
         \o from_utf8_lossy(SubSeq(v, Len(v) \div 2 + 1, Len(v)))

\* terminated(is_not("\0"), tag("\0")).map(String::from_utf8_lossy)
null_terminated(i, pos) ==
    Sole({ IF ~n.ok THEN n
           ELSE Sole({ IF ~t.ok THEN t ELSE ParseOk(from_utf8_lossy(n.out), t.pos)
                       : t \in {tag(i, n.pos, <<0>>)} })
           : n \in {is_not(i, pos, 0)} })

\* null_terminated().flat_map(|name| take(max_len - (name.len() + 1)))
\* with the name kept: name.len() is the length of the converted string,
\* and the subtraction is one of usize.
null_terminated_padded(i, pos, max_len, build) ==
    Sole({ IF ~n.ok THEN n
           ELSE IF Len(n.out) + 1 > max_len
           THEN (IF build = "overflow-checks" THEN ParseErr("panic") ELSE ParseErr("Eof"))
           ELSE Sole({ IF ~t.ok THEN t ELSE ParseOk(n.out, t.pos)
                       : t \in {take(i, n.pos, max_len - (Len(n.out) + 1))} })
           : n \in {null_terminated(i, pos)} })

\* skip(n)
skip(i, pos, n) ==
    Sole({ IF ~t.ok THEN t ELSE ParseOk(<<>>, t.pos) : t \in {take(i, pos, n)} })

\* TarHeader::file_size: take(12).map(|buf| oct2int(buf) as usize)
file_size(i, pos) ==
    Sole({ IF ~t.ok THEN t
           ELSE ParseOk(OctalValue(Significant(oct2int(t.out, "wrapping").dec)), t.pos)
           : t \in {take(i, pos, 12)} })

\* TarHeader::magic: verify(take(6), |buf| buf == b"ustar\0")
USTAR == <<117, 115, 116, 97, 114, 0>>
magic(i, pos) ==
    Sole({ IF ~t.ok THEN t
           ELSE IF t.out # USTAR THEN ParseErr("Verify")
           ELSE ParseOk(<<>>, t.pos)
           : t \in {take(i, pos, 6)} })

\* TarHeader::header_block: the tuple (null_terminated_padded(100),
\* skip(24), file_size(), skip(121), magic(), skip(235)) run in sequence
header_block(i, build) ==
    Sole({ IF ~n.ok THEN n ELSE
      Sole({ IF ~s1.ok THEN s1 ELSE
        Sole({ IF ~fsz.ok THEN fsz ELSE
          Sole({ IF ~s2.ok THEN s2 ELSE
            Sole({ IF ~m.ok THEN m ELSE
              Sole({ IF ~s3.ok THEN s3
                     ELSE ParseOk([name |-> n.out, file_size |-> fsz.out], s3.pos)
                     : s3 \in {skip(i, m.pos, 235)} })
              : m \in {magic(i, s2.pos)} })
            : s2 \in {skip(i, fsz.pos, 121)} })
          : fsz \in {file_size(i, s1.pos)} })
        : s1 \in {skip(i, n.pos, 24)} })
      : n \in {null_terminated_padded(i, 1, 100, build)} })

\* block() and blocks(num)
block(i, pos) == take(i, pos, BLOCK_SIZE)
blocks(i, pos, num) == take(i, pos, num * BLOCK_SIZE)

\* TarHeader::parser: map_parser(block(), header_block()): the header is
\* parsed from the block taken, and the input goes on after the block.
TarHeader_parser(i, pos, build) ==
    Sole({ IF ~b.ok THEN b
           ELSE Sole({ IF ~h.ok THEN h ELSE ParseOk(h.out, b.pos)
                       : h \in {header_block(b.out, build)} })
           : b \in {block(i, pos)} })

\* FileRef::file_data(header): the blocks of the file; data is the slice
\* &data[..header.file_size] of the input, kept as its place and length.
file_data(i, pos, header) ==
    LET needs_slop_block == header.file_size % BLOCK_SIZE # 0
        num_blocks == (header.file_size \div BLOCK_SIZE)
                      + (IF needs_slop_block THEN 1 ELSE 0)
    IN Sole({ IF ~d.ok THEN d
              ELSE ParseOk([header |-> header,
                            data |-> [off |-> pos, len |-> header.file_size]], d.pos)
              : d \in {blocks(i, pos, num_blocks)} })

\* FileRef::parser: TarHeader::parser().flat_map(Self::file_data)
FileRef_parser(i, pos, build) ==
    Sole({ IF ~h.ok THEN h ELSE file_data(i, h.pos, h.out)
           : h \in {TarHeader_parser(i, pos, build)} })

\* zero_block: tag([0; BLOCK_SIZE * 2])
zero_block_single(i, pos) == tag(i, pos, Bytes(BLOCK_SIZE, 0))
zero_block(i, pos) == tag(i, pos, Bytes(BLOCK_SIZE * 2, 0))

\* One turn of the loop of many_till(FileRef::parser(), zero_block()) in
\* tar_file: zero_block is tried first and ends the loop with the files
\* collected; when it fails FileRef::parser is run, and its error is the
\* error of tar_file.  t is [input, pos, files, result, build].
many_till(t) ==
    Sole({ IF g.ok THEN [t EXCEPT !.pos = g.pos, !.result = "Ok"]
           ELSE Sole({ IF ~f.ok
                       THEN [t EXCEPT !.result = IF f.err = "panic" THEN "panic" ELSE "Err",
                                      !.files = <<>>]
                       ELSE [t EXCEPT !.pos = f.pos, !.files = Append(@, f.out)]
                       : f \in {FileRef_parser(t.input, t.pos, t.build)} })
           : g \in {zero_block(t.input, t.pos)} })

(***************************************************************************)
(* SpecTar: tar_file().parse(input), one turn of many_till per step.  The  *)
(* history holds the number of turns taken.                                *)
(***************************************************************************)
\* A header block: the name padded with NULs to 100 bytes, mode, uid and
\* gid, the size as 11 octal digits and a space, mtime, checksum, type
\* flag '0', an empty link name, the magic with version "00", NULs.
RECURSIVE Octal(_, _)
Octal(n, width) == IF width = 0 THEN <<>> ELSE Octal(n \div 8, width - 1) \o <<Char0 + (n % 8)>>
Header(name, size, mgc) ==
    name \o Bytes(100 - Len(name), 0)
    \o Octal(420, 7) \o <<0>> \o Octal(1000, 7) \o <<0>> \o Octal(1000, 7) \o <<0>>
    \o Octal(size, 11) \o <<32>>
    \o Octal(0, 11) \o <<32>> \o Bytes(8, 32) \o <<Char0>> \o Bytes(100, 0)
    \o mgc \o <<Char0, Char0>> \o Bytes(BLOCK_SIZE - 265, 0)
\* A record: the header and the data padded with NULs to whole blocks.
Record(name, data, mgc) ==
    Header(name, Len(data), mgc)
    \o data \o Bytes((BLOCK_SIZE - (Len(data) % BLOCK_SIZE)) % BLOCK_SIZE, 0)

HelloName == <<46, 47, 104, 101, 108, 108, 111, 46, 116, 120, 116>>
HelloData == <<72, 101, 108, 108, 111, 33, 10>>
GNU_MAGIC == <<117, 115, 116, 97, 114, 32>>
\* The files archives are made of: ./hello.txt of the tests; an empty
\* file; a file of a block and a byte under a name of 99 bytes; a file of
\* two blocks of NULs; a file of one full block; a file whose name holds
\* the byte 0xFF; a file whose name fills the 100 bytes.
Files ==
    { [name |-> HelloName, data |-> HelloData],
      [name |-> <<97>>, data |-> <<>>],
      [name |-> Bytes(99, 110), data |-> Bytes(BLOCK_SIZE + 1, 120)],
      [name |-> <<122>>, data |-> Bytes(2 * BLOCK_SIZE, 0)],
      [name |-> <<98>>, data |-> Bytes(BLOCK_SIZE, 121)],
      [name |-> <<255, 97>>, data |-> HelloData],
      [name |-> Bytes(100, 110), data |-> <<>>] }
\* What follows the records: the two zero blocks, alone or before a block
\* that is not zero or a third zero block; one zero block, alone or before
\* a header; nothing; a header without the magic and the two zero blocks.
Tails ==
    { Bytes(2 * BLOCK_SIZE, 0),
      Bytes(2 * BLOCK_SIZE, 0) \o Bytes(BLOCK_SIZE, 7),
      Bytes(3 * BLOCK_SIZE, 0),
      Bytes(BLOCK_SIZE, 0),
      Bytes(BLOCK_SIZE, 0) \o Header(<<97>>, 0, USTAR) \o Bytes(2 * BLOCK_SIZE, 0),
      <<>>,
      Header(<<103>>, 0, GNU_MAGIC) \o Bytes(2 * BLOCK_SIZE, 0) }
\* Archives of up to MaxRecords records.
MaxRecords == 2
RECURSIVE FileLists(_)
FileLists(n) ==
    IF n = 0 THEN {<<>>}
    ELSE LET S == FileLists(n - 1) IN
         S \cup {Append(s, f) : s \in {x \in S : Len(x) = n - 1}, f \in Files}
RECURSIVE Archive(_)
Archive(fl) ==
    IF fl = <<>> THEN <<>>
    ELSE Record(fl[1].name, fl[1].data, USTAR) \o Archive(Tail(fl))

InitTar ==
    /\ procs = Scheduler_new.procs
    /\ current = Scheduler_new.current
    /\ mutable = [next |-> heap_start, end |-> heap_end]
    /\ mem = <<>>
    /\ kmem = <<>>
    /\ panic = "none"
    /\ csr = CsrInit
    /\ cpu = CpuInit
    /\ kctx = <<>>
    /\ console = <<>>
    /\ dev = None
    /\ blk = None
    /\ \E fl \in FileLists(MaxRecords) : \E tail \in Tails : \E b \in Builds :
         /\ fs = [input |-> Archive(fl) \o tail, pos |-> 1, files |-> <<>>,
                  result |-> "parsing", build |-> b]
         /\ hist = [op |-> "input", turns |-> 0, made_of |-> fl, tail |-> tail]

\* tar_file().parse(input): one turn of many_till
ManyTill ==
    /\ fs.result = "parsing"
    /\ fs' = many_till(fs)
    /\ hist' = [hist EXCEPT !.op = "many_till", !.turns = @ + 1]
    /\ UNCHANGED <<procs, current, mutable, mem, kmem, panic, csr, cpu, kctx, console,
                   dev, blk>>

NextTar == ManyTill

SpecTar == InitTar /\ [][NextTar]_vars

(***************************************************************************)
(* SpecBoot: main from its first statement to its do_yield, against a      *)
(* device.  kctx is main's place; a disk_read or disk_write of main is the *)
(* call up to QUEUE_NOTIFY, the rest of kick, and the end of the polling   *)
(* loop with the unwrap of the result.  The history holds the statements   *)
(* main has completed, in order, and the sectors it has read and written   *)
(* with success.                                                           *)
(***************************************************************************)
\* b"Hello from kernel!\n"
KernelHello ==
    <<72, 101, 108, 108, 111, 32, 102, 114, 111, 109, 32, 107, 101, 114, 110, 101,
      108, 33, 10>>

\* The disk main boots from: the archive of one file, sector by sector.
BootDisk(capacity) ==
    [n \in 0 .. capacity - 1 |->
       SubSeq(Record(HelloName, HelloData, USTAR),
              SECTOR_SIZE * n + 1, SECTOR_SIZE * n + SECTOR_SIZE)]

InitBoot ==
    /\ procs = Scheduler_new.procs
    /\ current = Scheduler_new.current
    /\ mutable = None
    /\ mem = <<>>
    /\ kmem = <<>>
    /\ panic = "none"
    /\ csr = CsrInit
    /\ cpu = CpuInit
    /\ kctx = [pc |-> "zero_bss"]
    /\ console = <<>>
    /\ dev \in {[d EXCEPT !.disk = BootDisk(d.capacity)] : d \in Devices}
    /\ blk = NoDriver
    /\ fs = None
    /\ hist = [op |-> "boot", trail |-> <<>>, read |-> {}, written |-> {}]

Done(step) == hist' = [hist EXCEPT !.op = step, !.trail = Append(@, step)]

\* core::ptr::write_bytes(bss_start, 0, bss_size)
MainZeroBss ==
    /\ panic = "none" /\ kctx.pc = "zero_bss"
    /\ kctx' = [pc |-> "stvec"]
    /\ Done("zero_bss")
    /\ UNCHANGED <<procs, current, mutable, mem, kmem, panic, csr, cpu, console, dev,
                   blk, fs>>

\* write_csr!("stvec", trap::trap_vector as usize), and the two println!
MainStvec ==
    /\ panic = "none" /\ kctx.pc = "stvec"
    /\ csr' = [csr EXCEPT !.stvec = trap_vector]
    /\ kctx' = [pc |-> "allocator_init"]
    /\ Done("stvec")
    /\ UNCHANGED <<procs, current, mutable, mem, kmem, panic, cpu, console, dev, blk, fs>>

\* allocator::GLOBAL_ALLOCATOR.init(&raw mut __heap, &raw mut __heap_end)
MainAllocInit ==
    /\ panic = "none" /\ kctx.pc = "allocator_init"
    /\ Install(init(K, heap_start, heap_end))
    /\ kctx' = [pc |-> "driver_new"]
    /\ Done("allocator_init")
    /\ UNCHANGED <<console, dev, blk, fs>>

\* let mut driver = virtio::BlockDeviceDriver::new()
MainDriverNew ==
    /\ panic = "none" /\ kctx.pc = "driver_new"
    /\ \E r \in {BlockDeviceDriver_new(K, dev)} :
         /\ Install(r.k)
         /\ dev' = r.dev
         /\ blk' = r.blk
    /\ kctx' = [pc |-> "disk_read"]
    /\ Done("driver_new")
    /\ UNCHANGED <<console, fs>>

\* The Err(..).unwrap() of main: a panic.
unwrap(k, result) ==
    IF result = Ok_unit THEN k
    ELSE Panic(k, "called Result::unwrap() on an Err value")

\* A call of main that returned at once was a validation error.
Unwrapped(r) ==
    /\ blk' = r.blk
    /\ dev' = r.dev
    /\ IF r.blk.pc = "ready"
       THEN Install(unwrap(K, r.blk.result))
       ELSE UNCHANGED <<procs, current, mutable, mem, kmem, panic, csr, cpu>>

\* let mut buf = [0; 512]; driver.disk_read(&mut buf, 0), to QUEUE_NOTIFY
MainDiskRead ==
    /\ panic = "none" /\ kctx.pc = "disk_read"
    /\ Unwrapped(disk_read(blk, dev, Bytes(SECTOR_SIZE, 0), 0))
    /\ kctx' = [pc |-> "disk_read_wait"]
    /\ hist' = [hist EXCEPT !.op = "call"]
    /\ UNCHANGED <<console, fs>>

\* copy_nonoverlapping(source, buf, source.len()); driver.disk_write(&buf, 0),
\* to QUEUE_NOTIFY
MainDiskWrite ==
    /\ panic = "none" /\ kctx.pc = "disk_write"
    /\ Unwrapped(disk_write(blk, dev,
                            copy_nonoverlapping(KernelHello, blk.call.buf,
                                                Len(KernelHello)), 0))
    /\ kctx' = [pc |-> "disk_write_wait"]
    /\ hist' = [hist EXCEPT !.op = "call"]
    /\ UNCHANGED <<console, fs>>

\* kick, after the QUEUE_NOTIFY write
MainKick ==
    /\ panic = "none" /\ blk.pc = "kicked"
    /\ blk' = kick_return(blk)
    /\ hist' = [hist EXCEPT !.op = "kick"]
    /\ UNCHANGED <<procs, current, mutable, mem, kmem, panic, csr, cpu, kctx, console,
                   dev, fs>>

\* The device completes the request it was notified of.
MainDevice ==
    /\ panic = "none" /\ blk # NoDriver /\ dev.notified > 0
    /\ \E status \in DevStatuses : \E data \in DevData \cup {SectorOf(blk, dev)} :
       \E r \in {device_serve(blk, dev, status, data)} :
         /\ blk' = r.blk
         /\ dev' = r.dev
    /\ hist' = [hist EXCEPT !.op = "device"]
    /\ UNCHANGED <<procs, current, mutable, mem, kmem, panic, csr, cpu, kctx, console, fs>>

\* The polling loop ends; the call returns and main unwraps its result.
MainPoll ==
    /\ panic = "none" /\ blk.pc = "poll" /\ ~is_busy(blk)
    /\ \E b \in {IF blk.call.kind = "read" THEN disk_read_done(blk)
                 ELSE disk_write_done(blk)} :
         /\ blk' = b
         /\ Install(unwrap(K, b.result))
         /\ kctx' = [pc |-> IF blk.call.kind = "read" THEN "disk_write"
                            ELSE "create_process"]
         /\ hist' = [hist EXCEPT
               !.op = "disk_" \o blk.call.kind,
               !.trail = IF b.result = Ok_unit THEN Append(@, "disk_" \o blk.call.kind)
                         ELSE @,
               !.read = IF b.result = Ok_unit /\ blk.call.kind = "read"
                        THEN @ \cup {blk.call.sector} ELSE @,
               !.written = IF b.result = Ok_unit /\ blk.call.kind = "write"
                           THEN @ \cup {blk.call.sector} ELSE @]
    /\ UNCHANGED <<console, dev, fs>>

\* process::create_process(constants::SHELL)
MainCreateProcess ==
    /\ panic = "none" /\ kctx.pc = "create_process"
    /\ \E r \in {create_process(K, SHELL)} : Install(r.k)
    /\ kctx' = [pc |-> "ps"]
    /\ Done("create_process")
    /\ UNCHANGED <<console, dev, blk, fs>>

\* process::ps(): the process table is printed
MainPs ==
    /\ panic = "none" /\ kctx.pc = "ps"
    /\ kctx' = [pc |-> "do_yield"]
    /\ Done("ps")
    /\ UNCHANGED <<procs, current, mutable, mem, kmem, panic, csr, cpu, console, dev,
                   blk, fs>>

\* process::do_yield()
MainDoYield ==
    /\ panic = "none" /\ kctx.pc = "do_yield"
    /\ Install(do_yield(K))
    /\ kctx' = [pc |-> "yielded"]
    /\ Done("do_yield")
    /\ UNCHANGED <<console, dev, blk, fs>>

NextBoot ==
    \/ MainZeroBss \/ MainStvec \/ MainAllocInit \/ MainDriverNew
    \/ MainDiskRead \/ MainDiskWrite \/ MainKick \/ MainDevice \/ MainPoll
    \/ MainCreateProcess \/ MainPs \/ MainDoYield

SpecBoot == InitBoot /\ [][NextBoot]_vars

(***************************************************************************)
(* Properties of the scheduler                                             *)
(***************************************************************************)
\* The occupied non-idle slot that follows `cur` in cyclic index order.
CyclicSuccessor(ps, cur) ==
    LET d == CHOOSE d \in 1..PROCS_MAX :
                 /\ (cur + d) % PROCS_MAX \in NonIdle(ps)
                 /\ \A e \in 1..(d - 1) : (cur + e) % PROCS_MAX \notin NonIdle(ps)
    IN (cur + d) % PROCS_MAX

\* C1: with N >= 2 non-idle processes, every do_yield makes `current` the
\* next occupied non-idle slot in cyclic index order after the old current;
\* every N consecutive yields make each non-idle process current exactly
\* once; and no yield makes the idle PID 0 current.
C1_RoundRobin ==
    LET N == Cardinality(NonIdle(procs))
        t == hist.trail
    IN (N >= 2 /\ panic = "none") =>
        /\ hist.op = "do_yield" => current = CyclicSuccessor(procs, hist.from)
        /\ \A i \in 1..Len(t) : t[i] # Pid_idle
        /\ \A j \in 0..(Len(t) - N) :
              /\ {t[j + i] : i \in 1..N} = {procs[s].pid : s \in NonIdle(procs)}
              /\ \A a, b \in 1..N : a # b => t[j + a] # t[j + b]

\* C1 witness: three non-idle processes and a fourth consecutive yield, the
\* scan having wrapped around the end of the table.
C1_Witness ==
    /\ Cardinality(NonIdle(procs)) = 3
    /\ hist.op = "do_yield"
    /\ Len(hist.trail) = 4
    /\ hist.trail[4] = hist.trail[1]

\* The lowest-numbered empty slot among the slots not in occ.
LowestEmpty(occ) ==
    IF occ = Slots THEN -1 ELSE CHOOSE i \in Slots \ occ : \A j \in Slots \ occ : i <= j

\* C8: slot 0 holds the idle process, every occupied slot i holds a process
\* whose PID is i, and create_process returns the index of the
\* lowest-numbered slot that was empty when it was called.
C8_TableInvariant ==
    /\ procs[0] # None /\ procs[0].pid = Pid_idle
    /\ \A i \in Slots : procs[i] # None => procs[i].pid = i
    /\ (hist.op = "create_process" /\ hist.ret # -1) =>
          /\ hist.ret = LowestEmpty(hist.occ)
          /\ procs[hist.ret] # None

\* C8 witness: a create_process that returned PID 3 after yields had made a
\* non-idle process current.
C8_Witness ==
    /\ hist.op = "create_process"
    /\ hist.ret = 3
    /\ current = 2

\* C9: the table never holds more than 8 processes; create_process called
\* with all 8 slots occupied panics and leaves the table, `current` and the
\* allocator as they were.
C9_FullTablePanics ==
    /\ [](Cardinality(Occupied(procs)) <= PROCS_MAX /\ DOMAIN procs = Slots)
    /\ [][(panic = "none" /\ Occupied(procs) = Slots /\ hist'.op = "create_process") =>
            /\ panic' = "No free processes"
            /\ procs' = procs
            /\ current' = current
            /\ mutable' = mutable
            /\ mem' = mem]_vars

\* C9 witness: create_process was called on a full table.
C9_Witness ==
    /\ hist.op = "create_process"
    /\ hist.occ = Slots
    /\ panic = "No free processes"

\* C10: when only the idle slot is occupied and current is idle, do_yield
\* returns without panicking and leaves current = 0.
C10_IdleOnlyYieldReturns ==
    (hist.op = "do_yield" /\ hist.occ = {0} /\ hist.from = Pid_idle) =>
        (panic = "none" /\ current = Pid_idle)

(***************************************************************************)
(* Properties of the trap path (SpecTrap).  hist.ecall[p] is the trap p    *)
(* took last: pc and x are the user pc and registers at the trap, frame0   *)
(* the trap frame as trap_vector left it, nsepc the writes of sepc, missed *)
(* whether the last getchar had no character, got the character returned,  *)
(* yields the do_yields since the last getchar, between whether another    *)
(* process trapped at another pc (1) and then returned to user code (2)    *)
(* while the call was open.                                                *)
(***************************************************************************)
IsEcall(p, n) ==
    /\ hist.ecall[p] # NoCall
    /\ hist.ecall[p].x[13] = W(n)

\* C2: a user ecall with 1 in a3 and a byte b in a0 is PUTCHAR: b is
\* emitted exactly once, the call returns with a0 = 0 and the kernel does
\* not panic.  The code does not do this: handle_syscall has no arm for 1.
C2_PutcharIsSyscall1 ==
    (hist.op = "trap_handler" /\ csr.scause = ECALL_U /\ IsEcall(current, 1))
        => /\ panic = "none"
           /\ console[current] = <<hist.ecall[current].x[10].lo>>
           /\ LoadWord(K, kctx[current].frame + FrameSlot(10)) = Zero

\* C3: GETCHAR polls SBI getchar; a poll with no character is followed by
\* exactly one do_yield before the next poll; the first character v ends
\* the call with v in the frame's x10, every other field of the frame as
\* trap_vector saved it, and a0 = v after the sret.
C3_GetcharYieldsThenReturns ==
    /\ \A p \in Slots :
         IsEcall(p, 2) =>
           LET e == hist.ecall[p]
               c == kctx[p]
           IN /\ (c.pc = "getchar" => e.yields = (IF e.missed THEN 1 ELSE 0))
              /\ (c.pc = "yield" => e.missed /\ e.yields = 0)
              /\ (c.pc = "return" =>
                    /\ ~e.missed /\ e.yields = 0 /\ e.got >= 0
                    /\ \A j \in 0..31 :
                         LoadWord(K, c.frame + 8 * j)
                           = (IF j = 9 THEN W(e.got) ELSE e.frame0[j]))
    /\ (hist.op = "sret" /\ IsEcall(current, 2)) =>
           /\ hist.ecall[current].got >= 0
           /\ cpu.x[10] = W(hist.ecall[current].got)

\* C3 witness: a GETCHAR that yielded, to another process, after a poll
\* without a character and then returned 0x78 in a0.
C3_Witness ==
    /\ hist.op = "sret" /\ IsEcall(current, 2)
    /\ hist.ecall[current].between > 0
    /\ cpu.x[10] = W(120)

\* C4: when a syscall returns, sepc at the sret is the caller's own ecall
\* plus 4 and was written once, also when the handler yielded in GETCHAR
\* and other processes trapped and returned in between.
C4_SepcIsOwnEcallPlus4 ==
    /\ \A p \in Slots :
         kctx[p].pc = "return" =>
           /\ p = current
           /\ csr.sepc = hist.ecall[p].pc + 4
           /\ hist.ecall[p].nsepc = 1
    /\ hist.op = "sret" =>
           /\ cpu.mode = "U"
           /\ cpu.pc = hist.ecall[current].pc + 4
           /\ csr.sepc = hist.ecall[current].pc + 4

\* C4 witness: the sret of a GETCHAR during which another process trapped
\* at another pc and returned to its user code.
C4_Witness ==
    /\ hist.op = "sret"
    /\ hist.ecall[current].between = 2
    /\ \E p \in Slots \ {current} :
         hist.ecall[p] # NoCall /\ hist.ecall[p].pc # hist.ecall[current].pc

\* C5: the trap frame's sp field holds the whole user sp seen at entry, and
\* at the sret every register but a0 has the value it had at the trap.  The
\* code does not do this: trap_vector stores the user sp with sw.
C5_RegistersPreserved ==
    /\ hist.op = "trap" =>
           LoadWord(K, kctx[current].frame + FrameSp) = hist.ecall[current].x[SP]
    /\ hist.op = "sret" =>
           \A r \in (1..31) \ {10} : cpu.x[r] = hist.ecall[current].x[r]

\* C6: trap_handler calls handle_syscall exactly when scause is 8; for any
\* other scause it panics: the kernel stays in S-mode inside trap_handler,
\* and sepc and the trap frame are as they were on entry.
C6_OnlyEcallIsDispatched ==
    /\ \A c \in Scauses : (trap_cause(c) = "syscall") <=> (c = ECALL_U)
    /\ hist.op = "trap_handler" =>
           /\ hist.invoked <=> (csr.scause = ECALL_U)
           /\ csr.scause # ECALL_U =>
                /\ panic # "none"
                /\ cpu.mode = "S"
                /\ kctx[current].pc = "trap_handler"
                /\ csr.sepc = hist.ecall[current].pc
                /\ FrameWords(K, kctx[current].frame) = hist.ecall[current].frame0
    /\ panic # "none" => cpu.mode = "S"

\* C6 witness: trap_handler entered for a supervisor timer interrupt.
C6_Witness ==
    /\ hist.op = "trap_handler"
    /\ csr.scause = Interrupt(5)
    /\ panic = "supervisor timer interrupt"

\* C7: a user ecall with 3 in a3 is EXIT: the kernel panics, the caller is
\* never resumed and no byte is emitted.  The code does not do this: 3 is
\* the putchar arm of handle_syscall.
C7_ExitPanics ==
    (hist.op = "trap_handler" /\ csr.scause = ECALL_U /\ IsEcall(current, 3))
        => /\ panic # "none"
           /\ console[current] = <<>>

(***************************************************************************)
(* Claims about Spec and SpecTrap: do_yield to self, boot, address spaces  *)
(***************************************************************************)
\* C11: when the only non-idle process is the one running, a do_yield
\* changes nothing: `current`, SATP, sscratch, the registers, every
\* process (its saved sp and its stack included) and all memory stay as
\* they were, so switch_context was not invoked.
C11_YieldToSelfIsNoOp ==
    [][(/\ panic = "none"
        /\ NonIdle(procs) = {current}
        /\ hist'.op = "do_yield"
        /\ hist'.occ = Occupied(procs))
       => (/\ current' = current
           /\ csr' = csr
           /\ cpu' = cpu
           /\ procs' = procs
           /\ mem' = mem
           /\ kmem' = kmem
           /\ mutable' = mutable
           /\ panic' = panic)]_vars

\* A do_yield was made by process 1 while it was the only non-idle process.
C11_Witness ==
    /\ hist.op = "do_yield"
    /\ hist.from = 1
    /\ hist.occ = {0, 1}
    /\ current = 1
    /\ panic = "none"

\* C12: after main's create_process(SHELL) and its first do_yield, current
\* is PID 1, the active page table maps USER_BASE with user and execute
\* permission, and the kernel does not end in the panic of trap_handler for
\* an instruction page fault; before that yield the table holds the idle
\* slot and exactly one user process.
C12_BootEntersShell ==
    (hist.image = SHELL /\ NonIdle(procs) = {1})
    => /\ Occupied(procs) = {0, 1}
       /\ kctx[Pid_idle].pc = "yielded"
          => /\ current = 1
             /\ UserCanExecute(K, USER_BASE)
             /\ panic # "instruction page fault"

\* The page-aligned addresses of [__kernel_start, __heap_end).
KernelPages ==
    {kernel_start + PAGE_SIZE * i : i \in 0 .. ((heap_end - kernel_start) \div PAGE_SIZE - 1)}
\* C13: when create_process has returned for a process, every page-aligned
\* address a of [__kernel_start, __heap_end) translates through the
\* process's root table to the frame a, by a valid leaf with R, W and X set
\* and U clear.
C13_KernelIdentityMapped ==
    (hist.op = "create_process" /\ hist.ret # -1)
    => \A a \in KernelPages :
         \E pte \in {Translate(K, procs[hist.ret].page_table, a)} :
            /\ PTE_valid(pte)
            /\ PTE_into_paddr(pte) = a
            /\ PTE_read(pte) /\ PTE_write(pte) /\ PTE_x(pte)
            /\ ~PTE_u(pte)

\* create_process has returned for a second process; the last page of the
\* heap is mapped in its table.
C13_Witness ==
    /\ hist.op = "create_process" /\ hist.ret = 2 /\ panic = "none"
    /\ PTE_valid(Translate(K, procs[2].page_table, heap_end - PAGE_SIZE))

\* The valid entries of a table, as indices.
ValidIn(m, table) ==
    {i \in DOMAIN PageAt(m, table).e : PTE_valid(ReadPte(m, table, i))}
\* Every page-aligned virtual address the tables under `root` map: the
\* valid leaves of the valid second-level tables of the valid first-level
\* entries.
MappedPages(m, root) ==
    UNION { UNION { { (i2 * PT_ENTRIES + i1) * PT_ENTRIES * PAGE_SIZE + i0 * PAGE_SIZE
                      : i0 \in ValidIn(m, PTE_into_paddr(ReadPte(m,
                                           PTE_into_paddr(ReadPte(m, root, i2)), i1))) }
                    : i1 \in ValidIn(m, PTE_into_paddr(ReadPte(m, root, i2))) }
            : i2 \in ValidIn(m, root) }
\* The user pages of an image of L bytes: ceil(L / 4096) of them.
UserPages(L) ==
    {USER_BASE + PAGE_SIZE * n : n \in 0 .. ((L + PAGE_SIZE - 1) \div PAGE_SIZE - 1)}

\* C14: when create_process has returned for an image of L bytes, the new
\* table maps exactly the ceil(L / 4096) pages USER_BASE + 4096 n besides
\* the kernel range; each of them has a valid leaf with R, W, X and U to a
\* frame of its own that the call allocated; the frame holds the
\* min(4096, L - 4096 n) bytes of the image from offset 4096 n and zeros
\* after them.
C14_UserImageMapped ==
    (hist.op = "create_process" /\ hist.ret # -1)
    => LET root == procs[hist.ret].page_table
           frame(v) == PTE_into_paddr(Translate(K, root, v))
       IN /\ MappedPages(mem, root) = KernelPages \cup UserPages(hist.size)
          /\ \A v \in UserPages(hist.size) :
               \E pte \in {Translate(K, root, v)} :
                 /\ PTE_valid(pte)
                 /\ PTE_read(pte) /\ PTE_write(pte) /\ PTE_x(pte) /\ PTE_u(pte)
                 /\ hist.next0 <= PTE_into_paddr(pte)
                 /\ PTE_into_paddr(pte) + PAGE_SIZE <= mutable.next
                 /\ is_aligned(PTE_into_paddr(pte))
                 /\ PageAt(mem, PTE_into_paddr(pte)) =
                        [e |-> <<>>,
                         n |-> Min(PAGE_SIZE, hist.size - (v - USER_BASE)),
                         src |-> v - USER_BASE]
          /\ \A v, w \in UserPages(hist.size) : frame(v) = frame(w) => v = w
          /\ \A v \in UserPages(hist.size) :
               /\ frame(v) # root
               /\ \A i2 \in ValidIn(mem, root) :
                    LET t1 == PTE_into_paddr(ReadPte(mem, root, i2)) IN
                    /\ frame(v) # t1
                    /\ \A i1 \in ValidIn(mem, t1) :
                         frame(v) # PTE_into_paddr(ReadPte(mem, t1, i1))

\* create_process has returned for an image of a page and a byte, as the
\* second process.
C14_Witness ==
    /\ hist.op = "create_process" /\ hist.ret = 2 /\ panic = "none"
    /\ hist.size = PAGE_SIZE + 1
    /\ Cardinality(UserPages(hist.size)) = 2

(***************************************************************************)
(* Claims about SpecMap: map_page                                          *)
(***************************************************************************)
\* C15: map_page of a page-aligned vaddr that the root does not map yet, to
\* a page-aligned paddr, with any of the 16 PageFlags values, returns, and
\* the walk of the root for vaddr then reaches a leaf with V = 1, frame
\* number paddr >> 12 and R, W, X, U exactly as the flags say, no other of
\* the low ten bits set.
C15_MapThenWalk ==
    [][(/\ hist'.op = "map_page"
        /\ Vaddr_is_aligned(hist'.vaddr) /\ is_aligned(hist'.paddr)
        /\ ~PTE_valid(Translate(K, hist.root, hist'.vaddr)))
       => /\ panic' = "none"
          /\ \E pte \in {Translate([K EXCEPT !.mem = mem'], hist.root, hist'.vaddr)} :
               /\ pte % 2 = 1
               /\ pte \div 1024 = hist'.paddr \div 4096
               /\ (pte % 1024) \div 2 =
                     (IF hist'.flags.read THEN 1 ELSE 0)
                     + (IF hist'.flags.write THEN 2 ELSE 0)
                     + (IF hist'.flags.execute THEN 4 ELSE 0)
                     + (IF hist'.flags.user THEN 8 ELSE 0)]_vars

\* map_page has returned for the second page, with user and execute only,
\* after it had mapped the first.
C15_Witness ==
    /\ hist.op = "map_page" /\ panic = "none"
    /\ hist.vaddr = kernel_start + PAGE_SIZE
    /\ hist.flags = [read |-> FALSE, write |-> FALSE, execute |-> TRUE, user |-> TRUE]
    /\ PTE_valid(Translate(K, hist.root, USER_BASE))

\* C16: map_page panics when the leaf for vaddr is already valid and when
\* vaddr or paddr is not 4096-aligned; the page tables are then as they
\* were, and for a misaligned address the allocator has given out nothing.
C16_MapPagePanics ==
    [][hist'.op = "map_page"
       => /\ (~Vaddr_is_aligned(hist'.vaddr) \/ ~is_aligned(hist'.paddr))
             => /\ panic' \in {"Virtual address not page-aligned",
                               "Physical address not page-aligned"}
                /\ mem' = mem
                /\ mutable' = mutable
          /\ (/\ Vaddr_is_aligned(hist'.vaddr) /\ is_aligned(hist'.paddr)
              /\ PTE_valid(Translate(K, hist.root, hist'.vaddr)))
             => /\ panic' = "remap"
                /\ mem' = mem]_vars

\* map_page has panicked on a page that was mapped.
C16_Witness ==
    /\ hist.op = "map_page" /\ panic = "remap"
    /\ PTE_valid(Translate(K, hist.root, hist.vaddr))

(***************************************************************************)
(* Claims about SpecAlloc: the bump allocator                              *)
(***************************************************************************)
\* C17: after init(start, end), whatever alloc, alloc_pages and dealloc
\* calls were made, every region returned is aligned as requested (to 4096
\* for alloc_pages), lies inside [start, end) and begins at or after the
\* end of every region returned before it, at a strictly greater address;
\* and a request panics with "Out of Memory!" exactly when `next` rounded
\* up to the alignment, plus the size, exceeds `end`.
C17_AllocatorRegions ==
    LET R == hist.regions
        rounded == ((hist.next0 + hist.req.align - 1) \div hist.req.align) * hist.req.align
    IN /\ \A i \in 1 .. Len(R) :
            /\ R[i].addr % R[i].align = 0
            /\ hist.start <= R[i].addr
            /\ R[i].addr + R[i].size <= hist.end
       /\ \A i, j \in 1 .. Len(R) :
            i < j => /\ R[i].addr + R[i].size <= R[j].addr
                     /\ R[i].addr < R[j].addr
       /\ hist.op \in {"alloc", "alloc_pages"}
          => /\ (rounded + hist.req.size > hist.end) <=> (panic = "Out of Memory!")
             /\ (rounded + hist.req.size <= hist.end)
                => /\ panic = "none"
                   /\ R[Len(R)] = [addr |-> rounded, size |-> hist.req.size,
                                    align |-> hist.req.align]
                   /\ mutable.next = rounded + hist.req.size
             /\ hist.op = "alloc_pages" => hist.req.align = 4096
       /\ hist.op = "dealloc" => panic = "none"

\* After a dealloc, alloc_pages has returned a third region, from an
\* allocator whose start was not page-aligned.
C17_Witness ==
    /\ hist.op = "alloc_pages" /\ panic = "none"
    /\ hist.freed
    /\ Len(hist.regions) = 3
    /\ hist.start % PAGE_SIZE # 0
    /\ hist.next0 % PAGE_SIZE # 0

(***************************************************************************)
(* Claims about SpecBlk: the VirtIO block driver                           *)
(***************************************************************************)
\* The places in the device's log where DEVICE_STATUS was written.
StatusWrites ==
    {i \in DOMAIN dev.log : dev.log[i].op = "w32"
                            /\ dev.log[i].reg = VIRTIO_REG_DEVICE_STATUS}
QueueRegs ==
    {VIRTIO_REG_QUEUE_SEL, VIRTIO_REG_QUEUE_NUM, VIRTIO_REG_QUEUE_ALIGN,
     VIRTIO_REG_QUEUE_PFN}

\* C18: after a successful BlockDeviceDriver::new() the values written to
\* DEVICE_STATUS were 0, 1, 3, 11 and 15 in this order, so that no bit set
\* after the reset was cleared again and the status ends as 15; queue 0 was
\* programmed between the writes of 11 and 15, and the capacity was read
\* after the write of 15.
C18_StatusHandshake ==
    (blk.pc # "start" /\ panic = "none")
    => LET log == dev.log
           writes == SelectSeq(log, LAMBDA e : e.op = "w32"
                                               /\ e.reg = VIRTIO_REG_DEVICE_STATUS)
       IN /\ [i \in 1 .. Len(writes) |-> writes[i].val] = <<0, 1, 3, 11, 15>>
          /\ dev.status = 15
          /\ \A i, j \in StatusWrites :
               i < j => BitOr(log[i].val, log[j].val) = log[j].val
          /\ \E i, j \in StatusWrites :
               /\ i < j /\ log[i].val = 11 /\ log[j].val = 15
               /\ \A n \in DOMAIN log :
                    /\ log[n].reg \in QueueRegs => (i < n /\ n < j)
                    /\ log[n].reg = VIRTIO_REG_DEVICE_CONFIG => j < n

\* C19: when QUEUE_NOTIFY has just been written for a request, descriptor
\* 0 is the 16-byte header of the BlockRequest with NEXT and next = 1,
\* descriptor 1 its 512 bytes of data with next = 2 and flags NEXT | WRITE
\* for a read, NEXT alone for a write, descriptor 2 its status byte with
\* WRITE and without NEXT; the request has type IN for disk_read, OUT for
\* disk_write, and the sector the caller gave.
C19_DescriptorChain ==
    (blk.pc = "kicked")
    => LET d == blk.virtq.descriptors
           read == blk.call.kind = "read"
       IN /\ dev.log[Len(dev.log)] = [op |-> "w32", reg |-> VIRTIO_REG_QUEUE_NOTIFY,
                                       val |-> blk.virtq.queue_index]
          /\ d[0] = [addr |-> request_addr, len |-> 16, flags |-> 1, next |-> 1]
          /\ d[1] = [addr |-> request_addr + 16, len |-> 512,
                     flags |-> IF read THEN 3 ELSE 1, next |-> 2]
          /\ d[2].addr = request_addr + 16 + 512
          /\ d[2].len = 1
          /\ d[2].flags = 2
          /\ blk.request.type_ = (IF read THEN 0 ELSE 1)
          /\ blk.request.sector = blk.call.sector

\* QUEUE_NOTIFY has been written for a disk_write of sector 1 that follows
\* an earlier request.
C19_Witness ==
    /\ blk.pc = "kicked"
    /\ blk.call.kind = "write" /\ blk.call.sector = 1
    /\ blk.virtq.available.index = 2
    /\ dev.notified = 1

\* C20: when a request has completed and the call returns, the result
\* follows request.status as the device left it: with status 0 the call
\* returns Ok and a read has copied the 512 bytes of request.data into
\* buf[0..512], the bytes of buf after them as they were; with a status s
\* other than 0 the call returns ReadFail(sector, s) or WriteFail(sector,
\* s) and the caller's buffer is as it was.
C20_ResultFollowsStatus ==
    (hist.op = "return")
    => LET c == blk.call IN
       /\ hist.status = 0
          => /\ blk.result = Ok_unit
             /\ c.kind = "read"
                => /\ Len(c.buf) = Len(c.buf0)
                   /\ \A i \in 1 .. Len(c.buf) :
                        c.buf[i] = IF i <= 512 THEN hist.data[i] ELSE c.buf0[i]
             /\ c.kind = "write" => c.buf = c.buf0
       /\ hist.status # 0
          => /\ blk.result = [err |-> IF c.kind = "read" THEN "ReadFail" ELSE "WriteFail",
                              a |-> c.sector, b |-> hist.status]
             /\ c.buf = c.buf0

\* A disk_read into a buffer of 520 bytes has returned Ok as the second
\* request, with the sector the device wrote.
C20_Witness ==
    /\ hist.op = "return" /\ hist.status = 0
    /\ blk.call.kind = "read" /\ Len(blk.call.buf) = SECTOR_SIZE + 8
    /\ blk.result = Ok_unit
    /\ hist.data[2] = 2 /\ blk.call.buf[2] = 2 /\ blk.call.buf[SECTOR_SIZE + 1] = 170
    /\ blk.virtq.available.index = 2

\* A step that is a call of disk_read or disk_write: the driver is ready
\* and the step leaves the name of the call in the history.
CallStep(op) == blk.pc = "ready" /\ hist'.op = op

C22_NotEnoughSpace ==
    [][CallStep("disk_read")
       => LET c == blk'.call IN
          /\ (blk'.result = [err |-> "NotEnoughSpaceForRead", a |-> Len(c.buf0),
                             b |-> 0])
              <=> (Len(c.buf0) < 512)
          /\ Len(c.buf0) < 512
             => /\ blk'.pc = "ready"
                /\ blk'.virtq = blk.virtq
                /\ dev' = dev
                /\ c.buf = c.buf0]_vars

\* disk_read with a buffer of 511 bytes and a sector out of range has
\* returned NotEnoughSpaceForRead(511).
C22_Witness ==
    /\ hist.op = "disk_read" /\ blk.pc = "ready"
    /\ Len(blk.call.buf0) = SECTOR_SIZE - 1
    /\ ~assert_sector_in_range(blk, blk.call.sector)
    /\ blk.result = IOError("NotEnoughSpaceForRead", SECTOR_SIZE - 1, 0)

(***************************************************************************)
(* Claims about oct2int                                                    *)
(***************************************************************************)
\* C25 as stated: for every byte string, oct2int returns the base-8 value
\* of the longest prefix made of the bytes '0' .. '7': the digits of the
\* result are the digits of that prefix, leading zeros apart.
C25_Oct2IntAnyString ==
    (fs.ret # None)
    => /\ fs.ret.panic = "none"
       /\ Significant(fs.ret.dec) = Significant(OctalPrefix(fs.oct))

\* C25, for the strings whose octal prefix stands for a number below 2^64
\* (at most 22 significant digits, the first of them 1 if there are 22):
\* oct2int returns the base-8 value of the longest prefix made of the
\* bytes '0' .. '7', 0 when the prefix is empty, and the same as for the
\* prefix alone, whatever the bytes from the first non-octal byte on;
\* oct2int("00000000007 ") = 7.
C25_Oct2Int ==
    (fs.ret # None)
    => LET ds == Significant(OctalPrefix(fs.oct)) IN
       /\ (Len(ds) < U64_DIGITS \/ (Len(ds) = U64_DIGITS /\ ds[1] = 1))
          => /\ fs.ret.panic = "none"
             /\ Significant(fs.ret.dec) = ds
       /\ ds = <<>> => fs.ret.dec = u64_zero
       /\ fs.oct = <<48, 48, 48, 48, 48, 48, 48, 48, 48, 48, 55, 32>>
          => OctalValue(fs.ret.dec) = 7
       /\ oct2int(SubSeq(fs.oct, 1, Len(OctalPrefix(fs.oct))), fs.build) = fs.ret

\* oct2int has returned 7 for "7/7": the digit after the '/' is not read.
C25_Witness ==
    /\ fs.ret # None
    /\ fs.oct = <<Char7, Char0 - 1, Char7>>
    /\ fs.ret.panic = "none"
    /\ OctalValue(fs.ret.dec) = 7

(***************************************************************************)
(* Claims about SpecTar: tar_file                                          *)
(***************************************************************************)
\* The place in the archive where record i of the file list fl begins.
RECURSIVE RecordStart(_, _)
RecordStart(fl, i) ==
    IF i = 1 THEN 1
    ELSE RecordStart(fl, i - 1) + BLOCK_SIZE
         + BLOCK_SIZE * ((Len(fl[i - 1].data) + BLOCK_SIZE - 1) \div BLOCK_SIZE)
\* The tails that begin with the two zero blocks.
Terminated == \A j \in 1 .. 2 * BLOCK_SIZE : j <= Len(hist.tail) /\ hist.tail[j] = 0
\* tar_file has returned the files the archive was made of.
RoundTrip ==
    LET fl == hist.made_of IN
    /\ fs.result = "Ok"
    /\ Len(fs.files) = Len(fl)
    /\ \A n \in 1 .. Len(fl) :
         /\ n <= Len(fs.files)
         /\ fs.files[n].header.name = from_utf8_lossy(fl[n].name)
         /\ fs.files[n].header.file_size = Len(fl[n].data)
         /\ fs.files[n].data = [off |-> RecordStart(fl, n) + BLOCK_SIZE,
                                len |-> Len(fl[n].data)]
         /\ SubSeq(fs.input, fs.files[n].data.off,
                   fs.files[n].data.off + fs.files[n].data.len - 1) = fl[n].data
    /\ fs.pos = RecordStart(fl, Len(fl) + 1) + 2 * BLOCK_SIZE
    /\ hist.turns = Len(fl) + 1

\* C23: for an archive of k >= 0 ustar records with NUL-terminated names
\* followed by two zero blocks, tar_file returns k entries in archive
\* order; entry i has the name of header i and as data the first
\* file_size_i bytes after header i, and record i takes one header block
\* and ceil(file_size_i / 512) data blocks.
C23_TarRoundTrip ==
    (/\ fs.result # "parsing"
     /\ Terminated
     /\ \A n \in 1 .. Len(hist.made_of) : Len(hist.made_of[n].name) < 100)
    => RoundTrip

Before(a, b) ==
    \A j \in DOMAIN hist.trail :
      hist.trail[j] = b => \E i \in 1 .. j - 1 : hist.trail[i] = a

\* C26: main zeroes the BSS, sets stvec, initialises the allocator, probes
\* the device, reads the whole disk into RAM, parses the TAR archive,
\* creates the first process and only then yields, each before the next:
\* when the first process exists every sector of the disk has been read
\* and the archive parsed; nothing is allocated before the allocator is
\* initialised and no user code runs before stvec is set.
C26_BootOrder ==
    /\ Before("zero_bss", "stvec")
    /\ Before("stvec", "allocator_init")
    /\ Before("allocator_init", "driver_new")
    /\ Before("driver_new", "disk_read")
    /\ Before("disk_read", "create_process")
    /\ Before("create_process", "do_yield")
    /\ (mutable = None => mem = <<>> /\ blk = NoDriver)
    /\ (cpu.mode = "U" => csr.stvec = trap_vector)
    /\ (procs[1] # None /\ panic = "none")
       => /\ \A s \in 0 .. (blk.capacity \div SECTOR_SIZE) - 1 : s \in hist.read
          /\ fs # None

(***************************************************************************)
(* Claims about SpecTrap: the kernel stacks                                *)
(***************************************************************************)
\* C27: when trap_vector calls trap_handler, sscratch holds again the
\* value sp took from it at the first instruction, the top of the kernel
\* stack of the current process; so after the sret that ends a trap
\* without a process switch sscratch is the top of that stack for the next
\* trap.
C27_SscratchIsStackTop ==
    /\ (hist.op = "trap" /\ panic = "none")
       => /\ hist.ecall[current].sp0 = StackTop(current) => csr.sscratch = W(StackTop(current))
          /\ csr.sscratch = W(hist.ecall[current].sp0)
    /\ (hist.op = "sret" /\ panic = "none")
       => csr.sscratch = W(StackTop(current))

\* C28: every trap frame of a process p is the 256 bytes below the top of
\* p's own kernel stack, however many traps p has taken, and the saved sp
\* of every process that is switched out lies in its own stack.
C28_TrapFrameFixed ==
    /\ \A p \in NonIdle(procs) :
         (panic = "none" /\ kctx[p].pc \in {"trap_handler", "getchar", "yield", "return"})
         => kctx[p].frame = StackTop(p) - FRAME_SIZE
    /\ \A p \in NonIdle(procs) :
         (panic = "none" /\ p # current)
         => /\ StackBase(p) <= procs[p].sp
            /\ procs[p].sp + NUM_REGISTERS * 8 <= StackTop(p)

\* The frame switch_context left at procs[p].sp, and the sp it leaves on the
\* way back.
SavedFrame(k, p) ==
    [ra |-> LoadWord(k, k.procs[p].sp),
     s |-> [j \in 1..12 |-> LoadWord(k, k.procs[p].sp + 8 * j)],
     sp |-> W(k.procs[p].sp + NUM_REGISTERS * 8)]

\* C29: a process that called switch_context and is switched back in has
\* ra, s0..s11 and sp as they were at the call and goes on after the call;
\* while it is switched out, its frame lies unmodified on its own stack (the
\* boot stack for the idle process).
C29_SwitchRoundTrip ==
    panic = "none" =>
      /\ (hist.op = "do_yield" /\ current # hist.from /\ hist.saved[current] # None)
         => /\ CallerRegs(K) = [hist.saved[current] EXCEPT !.ra = cpu.x[RA]]
            /\ cpu.x[RA] = hist.saved[current].ra
            /\ cpu.pc = ret_do_yield
      /\ \A p \in Slots \ {current} :
           hist.saved[p] # None
           => /\ SavedFrame(K, p) = hist.saved[p]
              /\ IF p = Pid_idle THEN StackOf(K, procs[p].sp) = -1
                 ELSE /\ StackBase(p) <= procs[p].sp
                      /\ hist.saved[p].sp.lo <= StackTop(p)

\* A process is back from a switch made in getchar_coop, after another
\* process took a trap and returned from it, and a third context is saved.
C29_Witness ==
    /\ panic = "none" /\ hist.op = "do_yield" /\ current # hist.from
    /\ hist.saved[current] # None
    /\ hist.ecall[current] # NoCall /\ hist.ecall[current].between = 2
    /\ \E p \in NonIdle(procs) \ {current} : hist.saved[p] # None

\* A step that switches to another process.
SwitchStep == panic = "none" /\ panic' = "none" /\ current' # current

\* C30: the first switch into a process restores ra = user_entry and zero
\* s0..s11 from the frame create_process made, leaves sp at the top of the
\* process's kernel stack and returns into user_entry: sepc = USER_BASE, the
\* sret of sstatus = 1 << 5, U-mode at USER_BASE.  Every later switch into
\* the process returns after the call in do_yield, in S-mode, and leaves
\* sepc and sstatus alone; a process that was entered is never new again.
C30_FirstSwitch ==
    [][/\ SwitchStep =>
           IF kctx[current'].pc = "new"
           THEN /\ cpu'.x[RA] = W(user_entry)
                /\ \A j \in 1..12 : cpu'.x[SREGS[j]] = Zero
                /\ cpu'.x[SP] = W(StackTop(current'))
                /\ csr'.sepc = USER_BASE
                /\ csr'.sstatus = sret([K EXCEPT !.csr.sstatus = STATUS_PIE]).csr.sstatus
                /\ STATUS_PIE = 32
                /\ cpu'.mode = "U" /\ cpu'.pc = USER_BASE
                /\ kctx'[current'].pc = "user"
           ELSE /\ cpu'.x[RA] = W(ret_do_yield) /\ cpu'.pc = ret_do_yield
                /\ cpu'.mode = "S"
                /\ csr'.sepc = csr.sepc /\ csr'.sstatus = csr.sstatus
       /\ \A p \in Slots : kctx[p].pc # "new" => kctx'[p].pc # "new"]_vars

\* A new process has just been entered by a switch made in getchar_coop of
\* another process, whose registers are saved.
C30_Witness ==
    /\ panic = "none" /\ hist.op = "do_yield" /\ current # hist.from
    /\ hist.from # Pid_idle /\ hist.saved[hist.from] # None
    /\ cpu.mode = "U" /\ cpu.pc = USER_BASE
    /\ cpu.x[RA] = W(user_entry) /\ cpu.x[SP] = W(StackTop(current))
    /\ hist.traps[current] = 0

\* The SATP value that designates the root page table of process p in Sv39
\* mode: (8 << 60) | (page_table >> 12).
SatpOf(p) == [mode |-> 8, ppn |-> procs'[p].page_table \div PAGE_SIZE]

\* C31: a do_yield that switches to another process n leaves SATP =
\* (8 << 60) | (n.page_table >> 12), which designates n's page-aligned root
\* table, current = n's pid, and, where switch_context returned into
\* user_entry or into n's do_yield, sscratch = the end of n's kernel stack;
\* so after every step in which a process other than the idle one is
\* current, SATP designates that process's own root table.
C31_SwitchSetsSatp ==
    [][/\ SwitchStep =>
           /\ csr'.satp = SatpOf(current')
           /\ csr'.satp.ppn * PAGE_SIZE = procs'[current'].page_table
           /\ csr'.sscratch = W(StackBase(current') + 8192)
           /\ procs'[current'].pid = current'
           /\ \A p \in NonIdle(procs') \ {current'} : csr'.satp # SatpOf(p)
       /\ (panic' = "none" /\ current' # Pid_idle) => csr'.satp = SatpOf(current')]_vars

\* getchar_coop of one process has switched to another process that had
\* trapped before, each with a root table of its own.
C31_Witness ==
    /\ panic = "none" /\ hist.op = "do_yield" /\ current # hist.from
    /\ hist.from # Pid_idle /\ hist.traps[current] > 0
    /\ csr.satp.mode = 8
    /\ csr.satp.ppn * PAGE_SIZE = procs[current].page_table
    /\ procs[hist.from].page_table # procs[current].page_table

\* The writes of QUEUE_NOTIFY among the register accesses so far.
Notifies ==
    SelectSeq(dev.log, LAMBDA e : e.op = "w32" /\ e.reg = VIRTIO_REG_QUEUE_NOTIFY)

\* C32: from the write of QUEUE_NOTIFY until the device has served it, the
\* device's view of the shared memory holds the whole request: the three
\* descriptors of the chain, descriptor index 0 in the ring entry of the
\* available.index before the increment (mod 16), available.index
\* incremented (it counts the notifications), and the request header and
\* data; QUEUE_NOTIFY was written with queue_index, once per request, and
\* is the last register access when kick has just written it.
C32_NotifyAfterRequest ==
    (panic = "none" /\ blk.pc # "start" /\ dev.notified > 0)
    => LET vq == blk.seen.virtq
           read == blk.call.kind = "read"
       IN /\ dev.notified = 1
          /\ vq.descriptors = blk.virtq.descriptors
          /\ vq.descriptors[0] = [addr |-> request_addr, len |-> 16, flags |-> 1, next |-> 1]
          /\ vq.descriptors[1] = [addr |-> request_addr + 16, len |-> 512,
                                  flags |-> IF read THEN 3 ELSE 1, next |-> 2]
          /\ vq.descriptors[2].addr = request_addr + 528
          /\ vq.descriptors[2].len = 1 /\ vq.descriptors[2].flags = 2
          /\ vq.available.index = Len(Notifies)
          /\ vq.available = blk.virtq.available
          /\ vq.available.ring[(vq.available.index - 1) % 16] = 0
          /\ blk.seen.request # None
          /\ blk.seen.request = blk.request
          /\ blk.seen.request.sector = blk.call.sector
          /\ blk.seen.request.type_ = (IF read THEN 0 ELSE 1)
          /\ \A i \in 1 .. Len(Notifies) : Notifies[i].val = blk.virtq.queue_index
          /\ blk.pc = "kicked" => dev.log[Len(dev.log)].reg = VIRTIO_REG_QUEUE_NOTIFY

\* The second request, a disk_write of 512 bytes, has been notified and not
\* served yet while the driver is already polling: the device's view holds
\* the caller's bytes.
C32_Witness ==
    /\ panic = "none" /\ blk.pc = "poll" /\ dev.notified = 1
    /\ blk.call.kind = "write" /\ Len(blk.call.buf0) = SECTOR_SIZE
    /\ blk.seen.virtq.available.index = 2
    /\ blk.seen.request.data[SECTOR_SIZE] = 65

\* The requests submitted so far.
C33_Requests == blk.virtq.available.index

\* C33: with the device advancing used.index once for each notification,
\* available.index counts the requests submitted and at most one of them is
\* not completed; while the driver polls, last_used_index = available.index;
\* until the device has completed the request the call has no result and
\* the caller's buffer is untouched; when the call returns, used.index =
\* last_used_index = available.index and what the call inspected is what
\* the device left for this request.  Calls that return a validation error
\* change none of the three indices.
C33_PollWaitsForDevice ==
    (panic = "none" /\ blk.pc # "start")
    => LET vq == blk.virtq IN
       /\ dev.notified \in {0, 1}
       /\ vq.available.index = Len(Notifies)
       /\ vq.used.index + dev.notified = vq.available.index
       /\ blk.pc = "kicked" => vq.last_used_index + 1 = vq.available.index
       /\ blk.pc \in {"poll", "spin", "ready"} => vq.last_used_index = vq.available.index
       /\ blk.pc \in {"kicked", "poll", "spin"}
          => /\ blk.result = None
             /\ blk.call.buf = blk.call.buf0
       /\ blk.pc = "poll" => (is_busy(blk) <=> dev.notified = 1)
       /\ blk.pc = "ready" => (dev.notified = 0 /\ vq.used.index = vq.last_used_index)
       /\ hist.op = "return"
          => /\ blk.result = Ok_unit <=> hist.status = 0
             /\ blk.result # None
       /\ hist.err_at >= 0 => hist.err_at <= vq.available.index

\* The second request has returned; between the first request and it a call
\* returned a validation error.
C33_Witness ==
    /\ panic = "none" /\ hist.op = "return" /\ hist.err_at = 1
    /\ C33_Requests = 2 /\ blk.virtq.used.index = 2 /\ blk.virtq.last_used_index = 2
    /\ hist.status = 1 /\ blk.result # Ok_unit

\* C34: when disk_write has submitted its request, request.data holds the
\* first 512 bytes of the caller's buffer at most, zero where the caller
\* gave none, request.status is 0 as BlockRequest::default() left it, and
\* nothing was written behind the request.  The code does not keep this for
\* a buffer of more than 512 bytes: the copy is made with buf.len().
C34_WriteStaysInData ==
    (hist.op = "disk_write" /\ blk.pc = "kicked")
    => LET buf == blk.call.buf0 IN
       /\ Len(blk.request.data) = SECTOR_SIZE
       /\ \A i \in 1 .. SECTOR_SIZE :
            blk.request.data[i] = IF i <= Len(buf) THEN buf[i] ELSE 0
       /\ blk.request.status = 0
       /\ blk.spill = <<>>
       /\ panic = "none"

C36_WriteThenRead ==
    (panic = "none" /\ hist.correct /\ hist.op = "return" /\ blk.result = Ok_unit)
    => LET s == blk.call.sector IN
       IF blk.call.kind = "write"
       THEN /\ \A n \in DOMAIN dev.disk \ {s} : dev.disk[n] = hist.disk0[n]
            /\ Len(blk.call.buf0) = SECTOR_SIZE => dev.disk[s] = blk.call.buf0
       ELSE /\ dev.disk = hist.disk0
            /\ (hist.last[s] # <<>> /\ Len(blk.call.buf) >= SECTOR_SIZE)
               => SubSeq(blk.call.buf, 1, SECTOR_SIZE) = hist.last[s]

\* a read of sector 1 has returned Ok after a 512-byte write to it did,
\* with sector 0 still in its first state
C36_Witness ==
    /\ panic = "none" /\ hist.correct /\ hist.op = "return" /\ blk.result = Ok_unit
    /\ blk.call # None /\ 1 \in DOMAIN dev.disk
    /\ blk.call.kind = "read" /\ blk.call.sector = 1
    /\ Len(blk.call.buf) = SECTOR_SIZE
    /\ hist.last[1] = Bytes(SECTOR_SIZE, 65)
    /\ blk.call.buf = hist.last[1]
    /\ dev.disk[1] = hist.last[1] /\ dev.disk[0] = DiskSector(0)

\* C37: from the first statement of main to its do_yield no request of
\* type OUT is given to the device, and every sector of the disk holds what
\* it held before boot, sector 0 the header of the first file.  The code
\* does not keep this: main writes its buffer, "Hello from kernel!\n" over
\* the bytes it read, to sector 0.
C37_BootKeepsDisk ==
    /\ blk.request # None => blk.request.type_ # VIRTIO_BLK_T_OUT
    /\ hist.written = {}
    /\ dev.disk = BootDisk(dev.capacity)
====
